---------------------------- MODULE Spec2Model ----------------------------
(***************************************************************************)
(* Billing-cycle resolver and installment amortization of the financial    *)
(* tracker (src/src/core/utils.py, src/src/storage/repository.py) and the  *)
(* message parser (src/src/core/parser.py).                                *)
(*                                                                         *)
(* Dates are proleptic-Gregorian day numbers (days since 1970-01-01), the  *)
(* way datetime.date and PostgreSQL's date order and subtract them; the    *)
(* calendar fields are recovered with the civil-calendar conversion.       *)
(***************************************************************************)
EXTENDS Integers, Sequences, FiniteSets, TLC

VARIABLES today, cycle_start, cycles, store, next_id, ic, working,
          line, outcome,
          allowed_user_id, update, replies, repo_calls, handled,
          dash, retry

vars == <<today, cycle_start, cycles, store, next_id, ic, working,
         line, outcome,
         allowed_user_id, update, replies, repo_calls, handled,
         dash, retry>>

cycle_vars == <<today, cycle_start, cycles>>
store_vars == <<store, next_id>>
cte_vars == <<ic, working>>
parse_vars == <<line, outcome>>
bot_vars == <<allowed_user_id, update, replies, repo_calls, handled>>

-----------------------------------------------------------------------------
(* Calendar: datetime.date / PostgreSQL date.                               *)

IsLeap(y) == (y % 4 = 0 /\ y % 100 # 0) \/ y % 400 = 0

DaysInMonth(y, m) ==
    IF m = 2 THEN (IF IsLeap(y) THEN 29 ELSE 28)
    ELSE IF m \in {4, 6, 9, 11} THEN 30 ELSE 31

\* date(y, m, d): the day number of a calendar date.
Date(y, m, d) ==
    LET yy == IF m <= 2 THEN y - 1 ELSE y
        era == yy \div 400
        yoe == yy - (era * 400)
        mp == IF m > 2 THEN m - 3 ELSE m + 9
        doy == ((153 * mp + 2) \div 5) + d - 1
        doe == (yoe * 365) + (yoe \div 4) - (yoe \div 100) + doy
    IN (era * 146097) + doe - 719468

\* The (year, month, day) fields of a day number, computed in stages: the
\* 400-year era, the day of the era, the year of the era, the day of the
\* (March-based) year, the month, the day.
CivilFields(y0, m, d) ==
    [year |-> y0 + (IF m <= 2 THEN 1 ELSE 0), month |-> m, day |-> d]

CivilOfMp(y0, doy, mp) ==
    CivilFields(y0, IF mp < 10 THEN mp + 3 ELSE mp - 9,
                doy - ((153 * mp + 2) \div 5) + 1)

CivilOfDoy(y0, doy) == CivilOfMp(y0, doy, (5 * doy + 2) \div 153)

CivilOfYoe(era, doe, yoe) ==
    CivilOfDoy(yoe + (era * 400),
               doe - ((365 * yoe) + (yoe \div 4) - (yoe \div 100)))

CivilOfDoe(era, doe) ==
    CivilOfYoe(era, doe,
               (doe - (doe \div 1460) + (doe \div 36524) - (doe \div 146096)) \div 365)

CivilOfEra(zz, era) == CivilOfDoe(era, zz - (era * 146097))

Civil(z) == CivilOfEra(z + 719468, (z + 719468) \div 146097)

\* today.replace(day=k)
ReplaceDay(z, k) == Date(Civil(z).year, Civil(z).month, k)

\* The date of day `day` in month number idx (year * 12 + month - 1), the day
\* clamped to the last day of that month.
ClampedDate(y, m, day) ==
    Date(y, m, IF day > DaysInMonth(y, m) THEN DaysInMonth(y, m) ELSE day)

DateInMonthIndex(idx, day) == ClampedDate(idx \div 12, (idx % 12) + 1, day)

AddMonthsCivil(c, n) == DateInMonthIndex((c.year * 12) + (c.month - 1) + n, c.day)

\* z + relativedelta(months=n), and timestamp + INTERVAL 'n month': the month
\* moves by n and the day is clamped to the last day of the target month.
AddMonths(z, n) == AddMonthsCivil(Civil(z), n)

-----------------------------------------------------------------------------
(* Configuration: src/src/core/config.py                                    *)

CYCLE_RESET_DAY_OLD == 4
CYCLE_RESET_DAY_NEW == 17
CYCLE_CHANGE_DATE == Date(2025, 10, 4)
CYCLE_TRANSITION_END_DATE == Date(2025, 11, 16)

-----------------------------------------------------------------------------
(* Billing cycle resolver: src/src/core/utils.py                            *)

\* A slip in the day comparison: the reset day itself is sent to the
\* preceding month.
get_cycle_start_strict(t) ==
    IF CYCLE_CHANGE_DATE <= t /\ t <= CYCLE_TRANSITION_END_DATE
    THEN CYCLE_CHANGE_DATE
    ELSE LET cycle_day == IF t > CYCLE_TRANSITION_END_DATE
                          THEN CYCLE_RESET_DAY_NEW ELSE CYCLE_RESET_DAY_OLD
             c == Civil(t)
         IN IF c.day > cycle_day
            THEN Date(c.year, c.month, cycle_day)
            ELSE LET first_of_month == ReplaceDay(t, 1)
                     prev_month_last == Civil(first_of_month - 1)
                 IN Date(prev_month_last.year, prev_month_last.month, cycle_day)

get_cycle_start(t) ==
    IF CYCLE_CHANGE_DATE <= t /\ t <= CYCLE_TRANSITION_END_DATE
    THEN CYCLE_CHANGE_DATE
    ELSE LET cycle_day == IF t > CYCLE_TRANSITION_END_DATE
                          THEN CYCLE_RESET_DAY_NEW ELSE CYCLE_RESET_DAY_OLD
             c == Civil(t)
         IN IF c.day >= cycle_day
            THEN Date(c.year, c.month, cycle_day)
            ELSE LET first_of_month == ReplaceDay(t, 1)
                     prev_month_last == Civil(first_of_month - 1)
                 IN Date(prev_month_last.year, prev_month_last.month, cycle_day)

\* A slip in the day comparison: on the reset day the cycle is taken to end
\* the day before.
RegularCurrent_le(t, cycle_day) ==
    LET current_cycle_end ==
            IF Civil(t).day <= cycle_day
            THEN ReplaceDay(t, cycle_day) - 1
            ELSE AddMonths(ReplaceDay(t, cycle_day), 1) - 1
        current_cycle_start == AddMonths(current_cycle_end + 1, -1)
    IN [start |-> current_cycle_start, end |-> current_cycle_end]

\* A slip in the month arithmetic: December rolls over to January of the
\* same year.
RegularCurrent_noyear(t, cycle_day) ==
    LET c == Civil(t)
        current_cycle_end ==
            IF c.day < cycle_day
            THEN ReplaceDay(t, cycle_day) - 1
            ELSE Date(c.year, (c.month % 12) + 1, cycle_day) - 1
        current_cycle_start == AddMonths(current_cycle_end + 1, -1)
    IN [start |-> current_cycle_start, end |-> current_cycle_end]

\* The computation the new and the old regime share (lines 77-86 and 98-107):
\* the cycle that the reset day cycle_day puts around t.
RegularCurrent(t, cycle_day) ==
    LET current_cycle_end ==
            IF Civil(t).day < cycle_day
            THEN ReplaceDay(t, cycle_day) - 1
            ELSE AddMonths(ReplaceDay(t, cycle_day), 1) - 1
        current_cycle_start == AddMonths(current_cycle_end + 1, -1)
    IN [start |-> current_cycle_start, end |-> current_cycle_end]

\* A slip: the previous cycle of the transition cycle starts one day early.
TransitionCycles_early ==
    LET previous_cycle_end == CYCLE_CHANGE_DATE - 1
        previous_cycle_start == AddMonths(previous_cycle_end, -1)
    IN [current |-> [start |-> CYCLE_CHANGE_DATE,
                     end |-> CYCLE_TRANSITION_END_DATE],
        previous |-> [start |-> previous_cycle_start,
                      end |-> previous_cycle_end]]

\* The transition branch (lines 69-73).
TransitionCycles ==
    LET previous_cycle_end == CYCLE_CHANGE_DATE - 1
        previous_cycle_start == AddMonths(previous_cycle_end, -1) + 1
    IN [current |-> [start |-> CYCLE_CHANGE_DATE,
                     end |-> CYCLE_TRANSITION_END_DATE],
        previous |-> [start |-> previous_cycle_start,
                      end |-> previous_cycle_end]]

\* A slip: the cycle after the transition cycle is not special-cased.
NewRegimeCycles_plain(t) ==
    LET cur == RegularCurrent(t, CYCLE_RESET_DAY_NEW)
    IN [current |-> cur,
        previous |-> [start |-> AddMonths(cur.start, -1),
                      end |-> AddMonths(cur.end, -1)]]

\* The new-regime branch (lines 74-94).
NewRegimeCycles(t) ==
    LET cur == RegularCurrent(t, CYCLE_RESET_DAY_NEW)
        transition_next_cycle_start == CYCLE_TRANSITION_END_DATE + 1
    IN IF cur.start = transition_next_cycle_start
       THEN [current |-> cur,
             previous |-> [start |-> CYCLE_CHANGE_DATE,
                           end |-> CYCLE_TRANSITION_END_DATE]]
       ELSE [current |-> cur,
             previous |-> [start |-> AddMonths(cur.start, -1),
                           end |-> AddMonths(cur.end, -1)]]

\* A slip: the previous cycle is taken to end with the month before the
\* current cycle's start.
OldRegimeCycles_gap(t) ==
    LET cur == RegularCurrent(t, CYCLE_RESET_DAY_OLD)
    IN [current |-> cur,
        previous |-> [start |-> AddMonths(cur.start, -1),
                      end |-> ReplaceDay(cur.start, 1) - 1]]

\* The old-regime branch (lines 95-110).
OldRegimeCycles(t) ==
    LET cur == RegularCurrent(t, CYCLE_RESET_DAY_OLD)
    IN [current |-> cur,
        previous |-> [start |-> AddMonths(cur.start, -1),
                      end |-> AddMonths(cur.end, -1)]]

\* A slip in the regime test: the last day of the transition cycle is
\* handed to the new regime.
get_current_and_previous_cycle_dates_open(t) ==
    IF CYCLE_CHANGE_DATE <= t /\ t < CYCLE_TRANSITION_END_DATE
    THEN TransitionCycles
    ELSE IF t >= CYCLE_TRANSITION_END_DATE
    THEN NewRegimeCycles(t)
    ELSE OldRegimeCycles(t)

get_current_and_previous_cycle_dates(t) ==
    IF CYCLE_CHANGE_DATE <= t /\ t <= CYCLE_TRANSITION_END_DATE
    THEN TransitionCycles
    ELSE IF t > CYCLE_TRANSITION_END_DATE
    THEN NewRegimeCycles(t)
    ELSE OldRegimeCycles(t)

-----------------------------------------------------------------------------
(* Bounds of the resolver specification.                                    *)

\* Number of days after CycleFirstDay the resolver is asked about.
MaxCycleDays == 1200

CycleFirstDay == Date(2024, 1, 1)
CycleDays == CycleFirstDay .. (CycleFirstDay + MaxCycleDays)

NoStore == <<>>

\* No message received, no call made.
NoLine == [fields |-> <<>>, sep |-> "", pad |-> <<>>]
NoOutcome == [fn |-> "none"]

\* No update handled, the dashboard not run, no insert attempted.
NoUpdate == [handler |-> "none", user |-> -1, has_message |-> FALSE, text |-> <<>>]

BotIdle ==
    /\ allowed_user_id = 0
    /\ update = NoUpdate
    /\ replies = <<>>
    /\ repo_calls = <<>>
    /\ handled = [auth |-> FALSE, exc |-> "none"]

DashIdle == dash = [fn |-> "none"]

RetryIdle == retry = [state |-> "idle"]

\* A caller (cmd_balance, the tests) resolves the cycle of "today".
Resolve(t) ==
    /\ today' = t
    /\ cycle_start' = get_cycle_start(t)
    /\ cycles' = get_current_and_previous_cycle_dates(t)

InitCycle ==
    /\ today \in CycleDays
    /\ cycle_start = get_cycle_start(today)
    /\ cycles = get_current_and_previous_cycle_dates(today)
    /\ store = NoStore
    /\ next_id = 1
    /\ ic = {}
    /\ working = {}
    /\ line = NoLine
    /\ outcome = NoOutcome
    /\ BotIdle /\ DashIdle /\ RetryIdle

\* The calendar moves to the next day and the cycle is resolved again.
NextDay ==
    /\ today + 1 \in CycleDays
    /\ Resolve(today + 1)
    /\ UNCHANGED <<store_vars, cte_vars, parse_vars, bot_vars, dash, retry>>

NextCycle == NextDay

SpecCycle == InitCycle /\ [][NextCycle]_vars

-----------------------------------------------------------------------------
(* The expense store: src/src/storage/repository.py                         *)
(*                                                                          *)
(* A stored record is [id, expense_ts, amount, installments]; expense_ts is *)
(* [date, time] in the session time zone, amount is in minor units (cents)  *)
(* and installments is a count or NULL.  The text columns are carried       *)
(* through the queries unchanged and are left out.                          *)

\* installments: Optional[int] = None, a NULL column value.
NULL == -1

\* Digits PostgreSQL's numeric division keeps beyond the two of the amount
\* column.  (PostgreSQL keeps at least 16 significant digits; the model keeps
\* fewer so that sums stay within TLC's integers.)
DivDigits == 3

RECURSIVE Pow10(_)
Pow10(k) == IF k = 0 THEN 1 ELSE 10 * Pow10(k - 1)

\* Number of units of a query amount in one cent.
Unit == Pow10(DivDigits)

Abs(x) == IF x < 0 THEN -x ELSE x

\* A division that keeps cents only: each share is rounded to 2 decimals.
NumericDiv_cents(amount, n) ==
    (IF amount < 0 THEN -1 ELSE 1) * (((2 * Abs(amount)) + n) \div (2 * n)) * Unit

\* amount / installments on numeric: the quotient rounded half away from
\* zero at the result scale, in units.
NumericDiv(amount, n) ==
    (IF amount < 0 THEN -1 ELSE 1) * (((2 * Abs(amount) * Unit) + n) \div (2 * n))

\* Decimal(total).quantize(Decimal("0.01")): units to cents, to the nearest,
\* ties to even.
Quantize(x) ==
    LET q == x \div Unit
        r == x % Unit
    IN IF 2 * r > Unit THEN q + 1
       ELSE IF 2 * r < Unit THEN q
       ELSE IF q % 2 = 0 THEN q ELSE q + 1

Table(st) == {st[i] : i \in 1 .. Len(st)}

\* The non-recursive term of installment_cycles: FROM public.expenses WHERE
\* installments > 1 (the same text in the three queries).
Anchor(table) ==
    {[id |-> x.id, expense_ts |-> x.expense_ts,
      installment_amount |-> NumericDiv(x.amount, x.installments),
      installments |-> x.installments, installment_number |-> 1,
      current_ts |-> x.expense_ts] :
        x \in {y \in table : y.installments # NULL /\ y.installments > 1}}

\* A slip: the transition window is not special-cased.
next_ts_total_naive(ts) == [date |-> AddMonths(ts.date, 1), time |-> ts.time]

\* The CASE of get_total_spent_in_period (lines 148-152).
next_ts_total(ts) ==
    IF ts.date >= Date(2025, 10, 4) /\ ts.date < Date(2025, 11, 17)
    THEN [date |-> Date(2025, 11, 17), time |-> ts.time]
    ELSE [date |-> AddMonths(ts.date, 1), time |-> ts.time]

\* A slip: every placement advances by one month, window or not.
next_ts_all_naive(ts) == [date |-> AddMonths(ts.date, 1), time |-> ts.time]

\* The CASE of get_all_expenses_as_dataframe (lines 305-309).
next_ts_all(ts) ==
    IF ts.date >= Date(2025, 10, 4) /\ ts.date < Date(2025, 11, 17)
    THEN [date |-> Date(2025, 11, 17), time |-> ts.time]
    ELSE [date |-> AddMonths(ts.date, 1), time |-> ts.time]

\* A slip: the window stops short of TRANSITION_END_DATE.
next_ts_range_open(ts) ==
    IF ts.date >= Date(2025, 10, 4) /\ ts.date < Date(2025, 11, 16)
    THEN [date |-> Date(2025, 11, 17), time |-> ts.time]
    ELSE [date |-> AddMonths(ts.date, 1), time |-> ts.time]

\* The CASE of get_expenses_in_range_as_dataframe (lines 415-419).
next_ts_range(ts) ==
    IF ts.date >= Date(2025, 10, 4) /\ ts.date < Date(2025, 11, 17)
    THEN [date |-> Date(2025, 11, 17), time |-> ts.time]
    ELSE [date |-> AddMonths(ts.date, 1), time |-> ts.time]

next_ts(q, ts) ==
    IF q = "total" THEN next_ts_total(ts)
    ELSE IF q = "all" THEN next_ts_all(ts)
    ELSE next_ts_range(ts)

\* A slip in the termination test: one placement too many.
RecursiveTerm_le(q, work) ==
    {[r EXCEPT !.installment_number = @ + 1, !.current_ts = next_ts(q, @)] :
        r \in {w \in work : w.installment_number <= w.installments}}

\* The recursive term of installment_cycles, applied to the rows of the
\* previous iteration: WHERE ic.installment_number < ic.installments.
RecursiveTerm(q, work) ==
    {[r EXCEPT !.installment_number = @ + 1, !.current_ts = next_ts(q, @)] :
        r \in {w \in work : w.installment_number < w.installments}}

\* WITH RECURSIVE ... UNION ALL: iterate the recursive term on the rows it
\* produced last until it produces none.
RECURSIVE Iterate(_, _, _)
Iterate(q, acc, work) ==
    IF work = {} THEN acc
    ELSE Iterate(q, acc \cup RecursiveTerm(q, work), RecursiveTerm(q, work))

installment_cycles(q, table) == Iterate(q, Anchor(table), Anchor(table))

\* monthly_expenses: the placements UNION ALL the records with installments
\* NULL or <= 1.  id and installment_number identify the row (UNION ALL
\* keeps equal rows apart); amount is in units.
monthly_expenses(q, table) ==
    {[id |-> r.id, expense_ts |-> r.current_ts, amount |-> r.installment_amount,
      installment_number |-> r.installment_number,
      installments |-> r.installments] : r \in installment_cycles(q, table)}
    \cup
    {[id |-> x.id, expense_ts |-> x.expense_ts, amount |-> x.amount * Unit,
      installment_number |-> 1,
      installments |-> IF x.installments = NULL THEN 1 ELSE x.installments] :
        x \in {y \in table : y.installments = NULL \/ y.installments <= 1}}

\* WHERE expense_ts::date BETWEEN s AND e
InPeriod(rows, s, e) ==
    {r \in rows : s <= r.expense_ts.date /\ r.expense_ts.date <= e}

RECURSIVE SumAmount(_)
SumAmount(rows) ==
    IF rows = {} THEN 0
    ELSE LET r == CHOOSE x \in rows : TRUE
         IN r.amount + SumAmount(rows \ {r})

\* SELECT COALESCE(SUM(amount), 0) ... WHERE expense_ts::date BETWEEN, and
\* the quantization to cents of the result.
TotalOfRows(rows, start_dt, end_dt) ==
    Quantize(SumAmount(InPeriod(rows, start_dt, end_dt)))

\* get_total_spent_in_period
get_total_spent_in_period(table, start_dt, end_dt) ==
    TotalOfRows(monthly_expenses("total", table), start_dt, end_dt)

TsAfter(a, b) == a.date > b.date \/ (a.date = b.date /\ a.time > b.time)

\* ORDER BY expense_ts DESC (rows of equal timestamp in some order).
RECURSIVE OrderByTsDesc(_)
OrderByTsDesc(rows) ==
    IF rows = {} THEN <<>>
    ELSE LET r == CHOOSE x \in rows :
                    \A y \in rows : ~TsAfter(y.expense_ts, x.expense_ts)
         IN <<r>> \o OrderByTsDesc(rows \ {r})

\* SELECT * FROM monthly_expenses WHERE expense_ts::date BETWEEN ... ORDER BY
\* expense_ts DESC: the rows of the period, newest first.
FrameOfRows(rows, start_date, end_date) ==
    OrderByTsDesc(InPeriod(rows, start_date, end_date))

\* get_expenses_in_range_as_dataframe
get_expenses_in_range_as_dataframe(table, start_date, end_date) ==
    FrameOfRows(monthly_expenses("range", table), start_date, end_date)

-----------------------------------------------------------------------------
(* The store as a state machine (specification Spec).                       *)

\* Most inserts of a run, hence most records held at once.
MaxStore == 2

\* Largest installment count a purchase is recorded with.
MaxInst == 4

\* Purchase days: the last day of the old regime, CHANGE_DATE, the last day
\* of the transition cycle and the first day of the new regime.
StoreDays ==
    {CYCLE_CHANGE_DATE - 1, CYCLE_CHANGE_DATE,
     CYCLE_TRANSITION_END_DATE, CYCLE_TRANSITION_END_DATE + 1}

\* Times of day of a purchase (hours).
Times == {0, 23}

\* Amounts (cents) parse_message hands over: a refund and an amount that no
\* installment count divides evenly.
Amounts == {-500, 10001}

\* Installment fields parse_message hands over: none, 0, 1, 3 and the largest.
InstallmentValues == {NULL, 0, 1, 3, MaxInst}

\* parse_message refuses a negative amount with installments > 1.
Parsable(amount, installments) == amount >= 0 \/ installments <= 1

LastTs(st) == st[Len(st)].expense_ts

Init ==
    /\ store = <<>>
    /\ next_id = 1
    /\ ic = {}
    /\ working = {}
    /\ line = NoLine
    /\ outcome = NoOutcome
    /\ BotIdle /\ DashIdle /\ RetryIdle
    /\ today = CYCLE_CHANGE_DATE
    /\ cycle_start = get_cycle_start(today)
    /\ cycles = get_current_and_previous_cycle_dates(today)

\* add_expense: INSERT ... VALUES (NOW(), ...) RETURNING id.  NOW() does not
\* run backwards.
add_expense(amount, installments, now) ==
    /\ next_id <= MaxStore
    /\ Parsable(amount, installments)
    /\ store # <<>> => ~TsAfter(LastTs(store), now)
    /\ store' = Append(store, [id |-> next_id, expense_ts |-> now,
                               amount |-> amount, installments |-> installments])
    /\ next_id' = next_id + 1
    /\ UNCHANGED <<cycle_vars, cte_vars, parse_vars, bot_vars, dash, retry>>

AddExpense ==
    \E amount \in Amounts, installments \in InstallmentValues,
       d \in StoreDays, t \in Times :
        add_expense(amount, installments, [date |-> d, time |-> t])

\* delete_last_expense: DELETE the row of greatest id (the last inserted).
delete_last_expense ==
    /\ store # <<>>
    /\ store' = SubSeq(store, 1, Len(store) - 1)
    /\ UNCHANGED <<next_id, cycle_vars, cte_vars, parse_vars, bot_vars, dash, retry>>

Next == AddExpense \/ delete_last_expense

Spec == Init /\ [][Next]_vars

-----------------------------------------------------------------------------
(* The evaluation of installment_cycles, one iteration at a time            *)
(* (specification SpecAmort): the store holds one installment purchase and  *)
(* get_all_expenses_as_dataframe runs its recursive query on it.            *)

\* Number of days after AmortFirstDay on which the purchase is made.
MaxAmortDays == 170

AmortFirstDay == Date(2025, 8, 20)
AmortDays == AmortFirstDay .. (AmortFirstDay + MaxAmortDays)

\* Amounts (cents): one smaller than the installment count, a round one and
\* one that no count divides evenly.
AmortAmounts == {2, 1000, 10001}

InitAmort ==
    /\ \E d \in AmortDays, t \in Times, amount \in AmortAmounts, n \in 2 .. MaxInst :
          store = <<[id |-> 1, expense_ts |-> [date |-> d, time |-> t],
                     amount |-> amount, installments |-> n]>>
    /\ next_id = 2
    /\ ic = {}
    /\ working = {}
    /\ line = NoLine
    /\ outcome = NoOutcome
    /\ BotIdle /\ DashIdle /\ RetryIdle
    /\ today = CYCLE_CHANGE_DATE
    /\ cycle_start = get_cycle_start(today)
    /\ cycles = get_current_and_previous_cycle_dates(today)

\* The non-recursive term seeds the result and the working table.
QueryAnchor ==
    /\ ic = {}
    /\ working = {}
    /\ ic' = Anchor(Table(store))
    /\ working' = Anchor(Table(store))
    /\ UNCHANGED <<cycle_vars, store_vars, parse_vars, bot_vars, dash, retry>>

\* One iteration of the recursive term over the working table.
QueryRecurse ==
    /\ working # {}
    /\ ic' = ic \cup RecursiveTerm("all", working)
    /\ working' = RecursiveTerm("all", working)
    /\ UNCHANGED <<cycle_vars, store_vars, parse_vars, bot_vars, dash, retry>>

NextAmort == QueryAnchor \/ QueryRecurse

SpecAmort == InitAmort /\ [][NextAmort]_vars

\* The recursive query has run to its end.
QueryDone == ic # {} /\ working = {}

-----------------------------------------------------------------------------
(* Properties of the installment expansion, under SpecAmort.                *)

\* C8: for every record with installments = n > 1 the expansion yields
\* exactly n placements, numbered 1..n each exactly once; placement 1 is at
\* the record's timestamp and the placement dates strictly increase with the
\* installment number.
C8_ExactlyNPlacements ==
    QueryDone =>
        \A i \in 1 .. Len(store) :
            (store[i].installments # NULL /\ store[i].installments > 1) =>
                LET rows == {r \in ic : r.id = store[i].id}
                    n == store[i].installments
                IN /\ Cardinality(rows) = n
                   /\ \A k \in 1 .. n :
                        Cardinality({r \in rows : r.installment_number = k}) = 1
                   /\ \A r \in rows :
                        /\ r.installment_number \in 1 .. n
                        /\ r.installment_number = 1 => r.current_ts = store[i].expense_ts
                   /\ \A r1 \in rows, r2 \in rows :
                        r1.installment_number < r2.installment_number =>
                            r1.current_ts.date < r2.current_ts.date

\* A 4-installment purchase of 2025-09-20 expanded to its end: 09-20, 10-20,
\* 11-17, 12-17.
C8_Witness ==
    /\ QueryDone
    /\ store[1].installments = 4
    /\ store[1].expense_ts.date = Date(2025, 9, 20)
    /\ Cardinality(ic) = 4
    /\ \E r \in ic : r.installment_number = 3 /\ r.current_ts.date = Date(2025, 11, 17)
    /\ \E r \in ic : r.installment_number = 4 /\ r.current_ts.date = Date(2025, 12, 17)

\* The placements of record x in the total query, as rows with an amount.
PlacementsOf(x, table) == {r \in monthly_expenses("total", table) : r.id = x.id}

\* C9: for every amount and every installment count n > 1 the amounts of
\* the n placements sum to the original amount to within one minor unit
\* (0.01), and every placement carries amount / n (to the precision of the
\* division).
C9_AmountsReconcile ==
    \A i \in 1 .. Len(store) :
        (store[i].installments # NULL /\ store[i].installments > 1) =>
            LET rows == PlacementsOf(store[i], Table(store))
                n == store[i].installments
            IN /\ Abs(SumAmount(rows) - (store[i].amount * Unit)) <= Unit
               /\ \A r \in rows :
                    2 * Abs((r.amount * n) - (store[i].amount * Unit)) <= n

\* 100.01 in 3 installments: the shares do not add up exactly.
C9_Witness ==
    /\ store[1].amount = 10001
    /\ store[1].installments = 3
    /\ Cardinality(PlacementsOf(store[1], Table(store))) = 3
    /\ SumAmount(PlacementsOf(store[1], Table(store))) # 10001 * Unit

\* The successor pairs (placement k, placement k+1) of the expansion of
\* query q.
Successors(q, table) ==
    {<<r1, r2>> \in installment_cycles(q, table) \X installment_cycles(q, table) :
        r1.id = r2.id /\ r2.installment_number = r1.installment_number + 1}

\* C10 as stated: placement k+1 is one calendar month after placement k,
\* except that a placement k dated p with CHANGE_DATE <= p <
\* TRANSITION_END_DATE is followed by one on the day after
\* TRANSITION_END_DATE at the same time of day; a placement on
\* TRANSITION_END_DATE itself advances by one month.
C10_HalfOpenWindow ==
    \A q \in {"total", "range"} :
        \A pair \in Successors(q, Table(store)) :
            LET p == pair[1].current_ts
            IN pair[2].current_ts =
                IF CYCLE_CHANGE_DATE <= p.date /\ p.date < CYCLE_TRANSITION_END_DATE
                THEN [date |-> CYCLE_TRANSITION_END_DATE + 1, time |-> p.time]
                ELSE [date |-> AddMonths(p.date, 1), time |-> p.time]

\* C10 (amended): placement k+1 is one calendar month after placement k,
\* except that a placement k dated p with CHANGE_DATE <= p <=
\* TRANSITION_END_DATE is followed by one on the day after
\* TRANSITION_END_DATE (2025-11-17) at the same time of day; a placement on
\* TRANSITION_END_DATE itself is inside the window.
C10_ClosedWindow ==
    \A q \in {"total", "range"} :
        \A pair \in Successors(q, Table(store)) :
            LET p == pair[1].current_ts
            IN pair[2].current_ts =
                IF CYCLE_CHANGE_DATE <= p.date /\ p.date <= CYCLE_TRANSITION_END_DATE
                THEN [date |-> CYCLE_TRANSITION_END_DATE + 1, time |-> p.time]
                ELSE [date |-> AddMonths(p.date, 1), time |-> p.time]

\* A purchase at 23h of TRANSITION_END_DATE: its second placement is the
\* next day at 23h, in both queries.
C10_Witness ==
    /\ store[1].expense_ts = [date |-> CYCLE_TRANSITION_END_DATE, time |-> 23]
    /\ \A q \in {"total", "range"} :
          \E pair \in Successors(q, Table(store)) :
              /\ pair[1].installment_number = 1
              /\ pair[2].current_ts = [date |-> Date(2025, 11, 17), time |-> 23]

\* The billing cycle a placement falls in.
CycleOf(r) == get_current_and_previous_cycle_dates(r.current_ts.date).current

\* C11: for every purchase date and every installment count, consecutive
\* placements fall in consecutive billing cycles: the cycle containing
\* placement k+1 starts the day after the cycle containing placement k ends
\* (no cycle skipped, none receiving two placements), in each of the three
\* queries.
C11_ConsecutiveCycles ==
    \A q \in {"total", "all", "range"} :
        \A pair \in Successors(q, Table(store)) :
            CycleOf(pair[2]).start = CycleOf(pair[1]).end + 1

\* A 4-installment purchase on CHANGE_DATE: 2025-10-04, 2025-11-17,
\* 2025-12-17, 2026-01-17.
C11_Witness ==
    /\ store[1].installments = 4
    /\ store[1].expense_ts.date = Date(2025, 10, 4)
    /\ {r.current_ts.date : r \in installment_cycles("total", Table(store))} =
          {Date(2025, 10, 4), Date(2025, 11, 17), Date(2025, 12, 17),
           Date(2026, 1, 17)}
    /\ \E pair \in Successors("total", Table(store)) :
          /\ pair[1].installment_number = 1
          /\ CycleOf(pair[1]) = [start |-> Date(2025, 10, 4), end |-> Date(2025, 11, 16)]
          /\ CycleOf(pair[2]) = [start |-> Date(2025, 11, 17), end |-> Date(2025, 12, 16)]

-----------------------------------------------------------------------------
(* Properties of the store queries, under Spec.                             *)

RECURSIVE SumColumn(_)
SumColumn(df) == IF df = <<>> THEN 0 ELSE Head(df).amount + SumColumn(Tail(df))

\* The period bounds the queries are compared on.  A period selects rows by
\* their day only, so it is enough to bound periods by the days on which
\* either query places a row, by the day before the first of them (an empty
\* period) and by the cycle boundaries of the transition.
PeriodDays(rowsT, rowsR) ==
    LET days == {r.expense_ts.date : r \in rowsT \cup rowsR}
    IN days \cup {d - 1 : d \in {x \in days : \A y \in days : x <= y}}
       \cup {CYCLE_CHANGE_DATE, CYCLE_TRANSITION_END_DATE,
             CYCLE_TRANSITION_END_DATE + 1}

-----------------------------------------------------------------------------
(* Properties of the billing cycle resolver, under SpecCycle.               *)

\* C2: the current cycle contains today (get_cycle_start(today) <= today <=
\* current.end), and start <= end for the current and the previous cycle.
C2_CycleContainsToday ==
    /\ cycle_start <= today
    /\ today <= cycles.current.end
    /\ cycles.current.start <= cycles.current.end
    /\ cycles.previous.start <= cycles.previous.end

\* A reset day of the new regime: the cycle starts today and ends a month on.
C2_Witness ==
    /\ today = Date(2026, 1, 17)
    /\ cycle_start = today
    /\ cycles.current.end = Date(2026, 2, 16)

\* C3: the current cycles of a day and of the next day are identical or
\* adjacent (the first ends on the day, the second starts on the next day):
\* no gap and no overlap.
C3_ConsecutiveDays ==
    [][today' = today + 1 =>
          \/ cycles'.current = cycles.current
          \/ /\ cycles.current.end = today
             /\ cycles'.current.start = today']_vars

\* The day after TRANSITION_END_DATE, reached from the day before.
C3_Witness ==
    /\ today = CYCLE_TRANSITION_END_DATE + 1
    /\ cycles.current.start = today
    /\ cycles.previous.end = today - 1

\* C4: get_cycle_start agrees with the start of the current cycle of
\* get_current_and_previous_cycle_dates.
C4_ResolversAgree == cycle_start = cycles.current.start

\* A new-regime day before the reset day: both resolvers go back a month,
\* here across the year boundary.
C4_Witness ==
    /\ today = Date(2026, 1, 5)
    /\ cycle_start = Date(2025, 12, 17)
    /\ cycles.current.start = Date(2025, 12, 17)

\* C5: on every day of the transition window the current cycle is
\* CHANGE_DATE .. TRANSITION_END_DATE (44 days) and the previous cycle is
\* 2025-09-04 .. 2025-10-03.
C5_TransitionCycle ==
    (CYCLE_CHANGE_DATE <= today /\ today <= CYCLE_TRANSITION_END_DATE) =>
        /\ cycles.current = [start |-> Date(2025, 10, 4), end |-> Date(2025, 11, 16)]
        /\ cycles.current.end - cycles.current.start + 1 = 44
        /\ cycles.previous = [start |-> Date(2025, 9, 4), end |-> Date(2025, 10, 3)]

C5_Witness ==
    /\ today = Date(2025, 11, 16)
    /\ cycles.current.end = today
    /\ cycles.previous.start = Date(2025, 9, 4)

\* C6: on every day of 2025-11-17 .. 2025-12-16 the current cycle starts the
\* day after TRANSITION_END_DATE and the previous cycle is the transition
\* cycle (not 2025-10-17 .. 2025-11-16).
C6_FirstNewCycle ==
    (Date(2025, 11, 17) <= today /\ today <= Date(2025, 12, 16)) =>
        /\ cycles.current.start = CYCLE_TRANSITION_END_DATE + 1
        /\ cycles.previous = [start |-> CYCLE_CHANGE_DATE,
                              end |-> CYCLE_TRANSITION_END_DATE]
        /\ cycles.previous.start # Date(2025, 10, 17)

C6_Witness ==
    /\ today = Date(2025, 12, 16)
    /\ cycles.current = [start |-> Date(2025, 11, 17), end |-> Date(2025, 12, 16)]
    /\ cycles.previous.start = Date(2025, 10, 4)

\* The month before and the month after a (year, month).
MonthBefore(y, m) == IF m = 1 THEN [year |-> y - 1, month |-> 12]
                     ELSE [year |-> y, month |-> m - 1]
MonthAfter(y, m) == IF m = 12 THEN [year |-> y + 1, month |-> 1]
                    ELSE [year |-> y, month |-> m + 1]

\* C7: outside the transition window, with R = 4 before CHANGE_DATE and
\* R = 17 after TRANSITION_END_DATE, the current cycle starts on day R of
\* today's month when today.day >= R and on day R of the preceding month
\* otherwise, and ends the day before day R of the month after its start.
C7_FixedResetDay ==
    (today < CYCLE_CHANGE_DATE \/ today > CYCLE_TRANSITION_END_DATE) =>
        LET R == IF today < CYCLE_CHANGE_DATE THEN 4 ELSE 17
            c == Civil(today)
            sm == IF c.day >= R THEN [year |-> c.year, month |-> c.month]
                  ELSE MonthBefore(c.year, c.month)
            em == MonthAfter(sm.year, sm.month)
        IN /\ Civil(cycles.current.start) = [year |-> sm.year, month |-> sm.month, day |-> R]
           /\ Civil(cycle_start) = [year |-> sm.year, month |-> sm.month, day |-> R]
           /\ Civil(cycles.current.end + 1) = [year |-> em.year, month |-> em.month, day |-> R]

\* An old-regime reset day in December: the cycle ends in the next year.
C7_Witness ==
    /\ today = Date(2024, 12, 4)
    /\ cycles.current = [start |-> Date(2024, 12, 4), end |-> Date(2025, 1, 3)]

-----------------------------------------------------------------------------
(* The message parser (src/src/core/parser.py).  A string is a sequence of  *)
(* characters; a character is a one-letter string.  The whitespace of the   *)
(* model is the space, its digits are the ASCII digits.                     *)

Digits == {"0", "1", "2", "3", "4", "5", "6", "7", "8", "9"}

IsDigit(c) == c \in Digits

IsSpace(c) == c = " "

\* str.lstrip / str.rstrip / str.strip
RECURSIVE LStrip(_)
LStrip(s) == IF s = <<>> \/ ~IsSpace(Head(s)) THEN s ELSE LStrip(Tail(s))

RECURSIVE RStrip(_)
RStrip(s) ==
    IF s = <<>> \/ ~IsSpace(s[Len(s)]) THEN s ELSE RStrip(SubSeq(s, 1, Len(s) - 1))

Strip(s) == RStrip(LStrip(s))

\* \s* from position i: the first position at or after i that holds no
\* whitespace (Len(s) + 1 at the end of the string).
RECURSIVE SkipSpaces(_, _)
SkipSpaces(s, i) ==
    IF i <= Len(s) /\ IsSpace(s[i]) THEN SkipSpaces(s, i + 1) ELSE i

\* -+ from position j: the position after the run of hyphens.
RECURSIVE HyphenRunEnd(_, _)
HyphenRunEnd(s, j) ==
    IF j <= Len(s) /\ s[j] = "-" THEN HyphenRunEnd(s, j + 1) ELSE j

NextIsDigit(s, e) == e <= Len(s) /\ IsDigit(s[e])

\* A slip: -+ without the lookahead, every run of hyphens is a delimiter.
HyphensEnd_nolookahead(s, j, e) == e

\* -+(?!\d) at position j, e being the end of the run: the whole run unless
\* a digit follows it; then the run less its last hyphen, and no match when
\* that leaves nothing.  0 stands for no match.
HyphensEnd(s, j, e) ==
    IF ~NextIsDigit(s, e) THEN e
    ELSE IF e - 1 > j THEN e - 1 ELSE 0

\* A slip: the pipe is left out of the alternatives.
DelimEnd_nopipe(s, j) ==
    IF j > Len(s) THEN 0
    ELSE IF s[j] = ";" THEN j + 1
    ELSE IF s[j] = "," THEN (IF NextIsDigit(s, j + 1) THEN 0 ELSE j + 1)
    ELSE IF s[j] = "-" THEN HyphensEnd(s, j, HyphenRunEnd(s, j))
    ELSE 0

\* (?:-+(?!\d)|;|\||,(?!\d)) at position j: the position after the match, 0
\* for no match.
DelimEnd(s, j) ==
    IF j > Len(s) THEN 0
    ELSE IF s[j] \in {";", "|"} THEN j + 1
    ELSE IF s[j] = "," THEN (IF NextIsDigit(s, j + 1) THEN 0 ELSE j + 1)
    ELSE IF s[j] = "-" THEN HyphensEnd(s, j, HyphenRunEnd(s, j))
    ELSE 0

\* The trailing \s* of a match whose delimiter ends before position e.
AfterDelim(s, e) == IF e = 0 THEN 0 ELSE SkipSpaces(s, e)

\* SEP_RE anchored at position i: the position after the match, 0 for no
\* match.  The leading \s* takes all the whitespace at i, since no
\* alternative starts with whitespace.
SEP_RE(s, i) == AfterDelim(s, DelimEnd(s, SkipSpaces(s, i)))

\* The scan of SEP_RE.split: the field in progress starts at position start,
\* the search is at position i, k splits are left.
RECURSIVE SplitFrom(_, _, _, _)
SplitFrom(s, i, start, k) ==
    IF k = 0 \/ i > Len(s) THEN <<SubSeq(s, start, Len(s))>>
    ELSE IF SEP_RE(s, i) = 0 THEN SplitFrom(s, i + 1, start, k)
    ELSE <<SubSeq(s, start, i - 1)>> \o SplitFrom(s, SEP_RE(s, i), SEP_RE(s, i), k - 1)

\* config.SEP_RE.split(s, maxsplit)
SEP_RE_split(s, maxsplit) == SplitFrom(s, 1, 1, maxsplit)

-----------------------------------------------------------------------------
(* br_to_decimal: the amount token to a Decimal quantized to cents.         *)

Uppers == <<"A", "B", "C", "D", "E", "F", "G", "H", "I", "J", "K", "L", "M",
            "N", "O", "P", "Q", "R", "S", "T", "U", "V", "W", "X", "Y", "Z",
            "A~", "A'", "A!", "A^", "E'", "E^", "I'", "O'", "O~", "O^", "U'", "C,">>
Lowers == <<"a", "b", "c", "d", "e", "f", "g", "h", "i", "j", "k", "l", "m",
            "n", "o", "p", "q", "r", "s", "t", "u", "v", "w", "x", "y", "z",
            "a~", "a'", "a!", "a^", "e'", "e^", "i'", "o'", "o~", "o^", "u'", "c,">>

\* str.lower / str.upper on one character.
LowerChar(c) ==
    IF \E i \in 1 .. Len(Uppers) : Uppers[i] = c
    THEN Lowers[CHOOSE i \in 1 .. Len(Uppers) : Uppers[i] = c] ELSE c

UpperChar(c) ==
    IF \E i \in 1 .. Len(Lowers) : Lowers[i] = c
    THEN Uppers[CHOOSE i \in 1 .. Len(Lowers) : Lowers[i] = c] ELSE c

ToLower(s) == [i \in 1 .. Len(s) |-> LowerChar(s[i])]

DigitSeq == <<"0", "1", "2", "3", "4", "5", "6", "7", "8", "9">>

DigitVal(c) == (CHOOSE i \in 1 .. 10 : DigitSeq[i] = c) - 1

\* \d* from position i: the position after the run of digits.
RECURSIVE DigitsEnd(_, _)
DigitsEnd(s, i) == IF NextIsDigit(s, i) THEN DigitsEnd(s, i + 1) ELSE i

\* The number written by the digits s[i] .. s[e - 1], after those read (acc).
RECURSIVE NatOf(_, _, _, _)
NatOf(s, i, e, acc) ==
    IF i >= e THEN acc ELSE NatOf(s, i + 1, e, (acc * 10) + DigitVal(s[i]))

\* re.sub(r"[Rr]\$\s?", "", text): every currency marker and one whitespace
\* after it are removed.
RECURSIVE StripCurrency(_)
StripCurrency(s) ==
    IF s = <<>> THEN <<>>
    ELSE IF Len(s) >= 2 /\ s[1] \in {"R", "r"} /\ s[2] = "$"
         THEN IF Len(s) >= 3 /\ IsSpace(s[3])
              THEN StripCurrency(SubSeq(s, 4, Len(s)))
              ELSE StripCurrency(SubSeq(s, 3, Len(s)))
    ELSE <<Head(s)>> \o StripCurrency(Tail(s))

\* \d\.\d{3}, ending before position c (the comma), which k decimals follow
\* up to the end of the string.
ThousandsBefore(s, c, k) ==
    /\ k \in {1, 2}
    /\ c >= 6
    /\ s[c] = ","
    /\ \A i \in (c + 1) .. Len(s) : IsDigit(s[i])
    /\ \A i \in (c - 3) .. (c - 1) : IsDigit(s[i])
    /\ s[c - 4] = "."
    /\ IsDigit(s[c - 5])

\* re.search(r"\d+\.\d{3},\d{1,2}$", text)
HasThousandsForm(s) ==
    \/ ThousandsBefore(s, Len(s) - 1, 1)
    \/ ThousandsBefore(s, Len(s) - 2, 2)

\* str.replace on single characters: to == <<>> removes the character.
RECURSIVE Replace(_, _, _)
Replace(s, from, to) ==
    IF s = <<>> THEN <<>>
    ELSE (IF Head(s) = from THEN to ELSE <<Head(s)>>) \o Replace(Tail(s), from, to)

Contains(s, c) == \E i \in 1 .. Len(s) : s[i] = c

\* Lines 136-139: the thousands form loses its periods and its comma becomes
\* the decimal point; else a text with commas and no period has its commas
\* turned into points; else the text is taken as it is.
NormalizeSeparators(t) ==
    IF HasThousandsForm(t) THEN Replace(Replace(t, ".", <<>>), ",", <<".">>)
    ELSE IF Contains(t, ",") /\ ~Contains(t, ".") THEN Replace(t, ",", <<".">>)
    ELSE t

\* Decimal values: a finite one is (-1)^neg * coef * 10^exp.
Finite(neg, coef, exp) == [kind |-> "finite", neg |-> neg, coef |-> coef, exp |-> exp]
Special(kind, neg) == [kind |-> kind, neg |-> neg, coef |-> 0, exp |-> 0]

\* The exponent part, its digits starting at position xs: at least one
\* digit, and nothing after the digits.
DecimalExponent(r, neg, coef, nfrac, xneg, xs) ==
    IF DigitsEnd(r, xs) = xs \/ DigitsEnd(r, xs) <= Len(r) THEN Special("invalid", neg)
    ELSE Finite(neg, coef,
                ((IF xneg THEN -1 ELSE 1) * NatOf(r, xs, Len(r) + 1, 0)) - nfrac)

\* After the digits and the fraction, which end before position p.
DecimalTail(r, neg, coef, nfrac, p) ==
    IF p > Len(r) THEN Finite(neg, coef, -nfrac)
    ELSE IF r[p] \notin {"e", "E"} THEN Special("invalid", neg)
    ELSE IF p + 1 <= Len(r) /\ r[p + 1] \in {"+", "-"}
         THEN DecimalExponent(r, neg, coef, nfrac, r[p + 1] = "-", p + 2)
    ELSE DecimalExponent(r, neg, coef, nfrac, FALSE, p + 1)

\* The integer digits end before ie, the fraction digits are fs .. fe - 1:
\* one of the two has a digit.
DecimalDigits(r, neg, ie, fs, fe) ==
    IF (ie - 1) + (fe - fs) = 0 THEN Special("invalid", neg)
    ELSE DecimalTail(r, neg,
                     (NatOf(r, 1, ie, 0) * Pow10(fe - fs)) + NatOf(r, fs, fe, 0),
                     fe - fs, fe)

DecimalNumeric(r, neg, ie) ==
    IF ie <= Len(r) /\ r[ie] = "."
    THEN DecimalDigits(r, neg, ie, ie + 1, DigitsEnd(r, ie + 1))
    ELSE DecimalDigits(r, neg, ie, ie, ie)

\* The text after the sign: Inf, Infinity, NaN and sNaN (with diagnostic
\* digits) in any case, or a number.
DecimalUnsigned(r, neg) ==
    IF ToLower(r) \in {<<"i", "n", "f">>, <<"i", "n", "f", "i", "n", "i", "t", "y">>}
    THEN Special("Infinity", neg)
    ELSE IF Len(r) >= 3 /\ ToLower(SubSeq(r, 1, 3)) = <<"n", "a", "n">>
              /\ DigitsEnd(r, 4) > Len(r)
         THEN Special("NaN", neg)
    ELSE IF Len(r) >= 4 /\ ToLower(SubSeq(r, 1, 4)) = <<"s", "n", "a", "n">>
              /\ DigitsEnd(r, 5) > Len(r)
         THEN Special("sNaN", neg)
    ELSE DecimalNumeric(r, neg, DigitsEnd(r, 1))

DecimalSigned(t) ==
    IF t = <<>> THEN Special("invalid", FALSE)
    ELSE IF Head(t) = "-" THEN DecimalUnsigned(Tail(t), TRUE)
    ELSE IF Head(t) = "+" THEN DecimalUnsigned(Tail(t), FALSE)
    ELSE DecimalUnsigned(t, FALSE)

\* Decimal(text): surrounding whitespace is ignored; kind "invalid" stands
\* for the InvalidOperation of a text that is no number.
Decimal(t) == DecimalSigned(Strip(t))

RECURSIVE NumDigits(_)
NumDigits(n) == IF n < 10 THEN 1 ELSE 1 + NumDigits(n \div 10)

\* coef / 10^k to the nearest integer, ties to even (ROUND_HALF_EVEN).
RoundHalfEven(coef, k) ==
    IF NumDigits(coef) < k THEN 0
    ELSE IF 2 * (coef % Pow10(k)) > Pow10(k) THEN (coef \div Pow10(k)) + 1
    ELSE IF 2 * (coef % Pow10(k)) < Pow10(k) THEN coef \div Pow10(k)
    ELSE IF (coef \div Pow10(k)) % 2 = 0 THEN coef \div Pow10(k)
    ELSE (coef \div Pow10(k)) + 1

\* The precision of the default decimal context.
DecimalPrec == 28

Sign(neg) == IF neg THEN -1 ELSE 1

\* Results of a call: a returned value or a raised exception.
Returned(v) == [exc |-> "none", msg |-> "", value |-> v]
Raised(exc, msg) == [exc |-> exc, msg |-> msg, value |-> <<>>]

\* An amount in cents; the sign of a zero is not kept (Decimal("-0.00")
\* equals Decimal("0.00") and is not below zero).
Cents(n) == [kind |-> "finite", cents |-> n]
NaN == [kind |-> "NaN", cents |-> 0]

\* value.quantize(Decimal("0.01")): NaN stays NaN; an infinity, a signaling
\* NaN and a result of more than DecimalPrec digits raise InvalidOperation,
\* which line 146 does not catch.
quantize(v) ==
    IF v.kind = "NaN" THEN Returned(NaN)
    ELSE IF v.kind \in {"Infinity", "sNaN"} THEN Raised("InvalidOperation", "")
    ELSE IF v.exp >= -2
         THEN IF v.coef # 0 /\ NumDigits(v.coef) + v.exp + 2 > DecimalPrec
              THEN Raised("InvalidOperation", "")
              ELSE Returned(Cents(Sign(v.neg) * v.coef * Pow10(v.exp + 2)))
    ELSE Returned(Cents(Sign(v.neg) * RoundHalfEven(v.coef, -(v.exp + 2))))

\* br_to_decimal: lines 133-146.  The ValueError of line 144 quotes the
\* token.
br_to_decimal(s) ==
    IF Decimal(NormalizeSeparators(StripCurrency(Strip(s)))).kind = "invalid"
    THEN [exc |-> "ValueError", msg |-> "Valor invalido", value |-> s]
    ELSE quantize(Decimal(NormalizeSeparators(StripCurrency(Strip(s)))))

-----------------------------------------------------------------------------
(* Canonical values and title case.  A letter with a diacritic is one       *)
(* character, written as its base letter and a mark ("a~", "e'", "c,").   *)

Accented == <<"a~", "a'", "a!", "a^", "e'", "e^", "i'", "o'", "o~", "o^", "u'", "c,",
              "A~", "A'", "A!", "A^", "E'", "E^", "I'", "O'", "O~", "O^", "U'", "C,">>
Bases == <<"a", "a", "a", "a", "e", "e", "i", "o", "o", "o", "u", "c",
           "A", "A", "A", "A", "E", "E", "I", "O", "O", "O", "U", "C">>

\* NFKD decomposition with the combining marks dropped, on one character.
Unaccent(c) ==
    IF \E i \in 1 .. Len(Accented) : Accented[i] = c
    THEN Bases[CHOOSE i \in 1 .. Len(Accented) : Accented[i] = c] ELSE c

\* re.sub(r"\s+", " ", n): every run of whitespace becomes one space.
RECURSIVE CollapseSpaces(_)
CollapseSpaces(s) ==
    IF s = <<>> THEN <<>>
    ELSE IF IsSpace(Head(s)) THEN <<" ">> \o CollapseSpaces(LStrip(s))
    ELSE <<Head(s)>> \o CollapseSpaces(Tail(s))

\* A slip: the diacritics are kept.
strip_accents_lower_keepmarks(s) == ToLower(Strip(CollapseSpaces(s)))

\* config._strip_accents_lower
strip_accents_lower(s) ==
    ToLower(Strip(CollapseSpaces([i \in 1 .. Len(s) |-> Unaccent(s[i])])))

\* The canonical payment methods (named by the message of lines 62-64).
METHODS_DISPLAY == {<<"P", "i", "x">>,
                    <<"C", "a", "r", "t", "a~", "o", " ", "d", "e", " ", "C", "r", "e'", "d", "i", "t", "o">>,
                    <<"C", "a", "r", "t", "a~", "o", " ", "d", "e", " ", "D", "e'", "b", "i", "t", "o">>,
                    <<"B", "o", "l", "e", "t", "o">>}

\* The canonical tags (named by the message of lines 86-88).
TAGS_DISPLAY == {<<"G", "a", "s", "t", "o", "s", " ", "P", "e", "s", "s", "o", "a", "i", "s">>,
                 <<"G", "a", "s", "t", "o", "s", " ", "d", "o", " ", "C", "a", "s", "a", "l">>,
                 <<"G", "a", "s", "t", "o", "s", " ", "d", "e", " ", "C", "a", "s", "a">>}

\* Four of the categories of CATEGORIES_DISPLAY, the ones the tests use.
CATEGORIES_DISPLAY == {<<"T", "r", "a", "n", "s", "p", "o", "r", "t", "e">>,
                       <<"O", "u", "t", "r", "o", "s">>,
                       <<"A", "s", "s", "i", "n", "a", "t", "u", "r", "a">>,
                       <<"A", "l", "i", "m", "e", "n", "t", "a", "c,", "a~", "o">>}

\* The lookup tables: the normalized form of a canonical value is its key.
Canon(display, key) == CHOOSE d \in display : strip_accents_lower(d) = key
Keys(display) == {strip_accents_lower(d) : d \in display}

ALLOWED_METHODS == [key \in Keys(METHODS_DISPLAY) |-> Canon(METHODS_DISPLAY, key)]
ALLOWED_TAGS == [key \in Keys(TAGS_DISPLAY) |-> Canon(TAGS_DISPLAY, key)]
ALLOWED_CATEGORIES == [key \in Keys(CATEGORIES_DISPLAY) |-> Canon(CATEGORIES_DISPLAY, key)]

canon_method(raw) ==
    IF strip_accents_lower(raw) \in DOMAIN ALLOWED_METHODS
    THEN Returned(ALLOWED_METHODS[strip_accents_lower(raw)])
    ELSE Raised("ValueError", "Metodo invalido")

canon_tag(raw) ==
    IF strip_accents_lower(raw) \in DOMAIN ALLOWED_TAGS
    THEN Returned(ALLOWED_TAGS[strip_accents_lower(raw)])
    ELSE Raised("ValueError", "Tag invalida")

canon_category(raw) ==
    IF strip_accents_lower(raw) \in DOMAIN ALLOWED_CATEGORIES
    THEN Returned(ALLOWED_CATEGORIES[strip_accents_lower(raw)])
    ELSE Raised("ValueError", "Categoria invalida")

LOWER_WORDS ==
    {<<"d", "e">>, <<"d", "a">>, <<"d", "o">>, <<"d", "a", "s">>,
     <<"d", "o", "s">>, <<"e">>, <<"e", "m">>, <<"n", "o">>,
     <<"n", "a">>, <<"n", "o", "s">>, <<"n", "a", "s">>, <<"p", "a", "r", "a">>,
     <<"p", "o", "r">>, <<"c", "o", "m">>, <<"a", "o">>, <<"a">>,
     <<"a!">>, <<"a!", "s">>, <<"o">>, <<"o", "s">>,
     <<"u", "m">>, <<"u", "m", "a">>, <<"u", "m", "a", "s">>, <<"u", "n", "s">>}

\* str.capitalize on a lowercase token.
Capitalize(w) == IF w = <<>> THEN w ELSE <<UpperChar(Head(w))>> \o Tail(w)

IsTitleSep(c) == IsSpace(c) \/ c = "-"

\* The position after the token that starts at position i.
RECURSIVE TokenEnd(_, _)
TokenEnd(s, i) ==
    IF i <= Len(s) /\ ~IsTitleSep(s[i]) THEN TokenEnd(s, i + 1) ELSE i

\* A slip: a connective stays lowercase in first position too.
RECURSIVE TitleizeFrom_nofirst(_, _, _)
TitleizeFrom_nofirst(s, i, is_first) ==
    IF i > Len(s) THEN <<>>
    ELSE IF IsTitleSep(s[i]) THEN <<s[i]>> \o TitleizeFrom_nofirst(s, i + 1, is_first)
    ELSE (IF SubSeq(s, i, TokenEnd(s, i) - 1) \notin LOWER_WORDS
          THEN Capitalize(SubSeq(s, i, TokenEnd(s, i) - 1))
          ELSE SubSeq(s, i, TokenEnd(s, i) - 1))
         \o TitleizeFrom_nofirst(s, TokenEnd(s, i), FALSE)

\* A slip: a run of whitespace is rebuilt as one space.
RECURSIVE TitleizeFrom_onespace(_, _, _)
TitleizeFrom_onespace(s, i, is_first) ==
    IF i > Len(s) THEN <<>>
    ELSE IF IsSpace(s[i])
    THEN <<" ">> \o TitleizeFrom_onespace(s, SkipSpaces(s, i), is_first)
    ELSE IF IsTitleSep(s[i]) THEN <<s[i]>> \o TitleizeFrom_onespace(s, i + 1, is_first)
    ELSE (IF is_first \/ SubSeq(s, i, TokenEnd(s, i) - 1) \notin LOWER_WORDS
          THEN Capitalize(SubSeq(s, i, TokenEnd(s, i) - 1))
          ELSE SubSeq(s, i, TokenEnd(s, i) - 1))
         \o TitleizeFrom_onespace(s, TokenEnd(s, i), FALSE)

\* The loop of titleize_pt from position i of the lowercased text:
\* separators are kept, the first token and every token that is no
\* connective are capitalized.
RECURSIVE TitleizeFrom(_, _, _)
TitleizeFrom(s, i, is_first) ==
    IF i > Len(s) THEN <<>>
    ELSE IF IsTitleSep(s[i]) THEN <<s[i]>> \o TitleizeFrom(s, i + 1, is_first)
    ELSE (IF is_first \/ SubSeq(s, i, TokenEnd(s, i) - 1) \notin LOWER_WORDS
          THEN Capitalize(SubSeq(s, i, TokenEnd(s, i) - 1))
          ELSE SubSeq(s, i, TokenEnd(s, i) - 1))
         \o TitleizeFrom(s, TokenEnd(s, i), FALSE)

titleize_pt(s) == TitleizeFrom(ToLower(Strip(s)), 1, TRUE)

-----------------------------------------------------------------------------
(* parse_message.  Error messages are named by their first words, written   *)
(* without diacritics.                                                      *)

\* Lines 181-188: the Expense is built field by field, so the first unknown
\* value among method, tag and category raises.
BuildExpense(parts, installments, amount) ==
    IF canon_method(parts[3]).exc # "none" THEN canon_method(parts[3])
    ELSE IF canon_tag(parts[4]).exc # "none" THEN canon_tag(parts[4])
    ELSE IF canon_category(parts[5]).exc # "none" THEN canon_category(parts[5])
    ELSE Returned([amount |-> amount,
                   description |-> titleize_pt(parts[2]),
                   method |-> canon_method(parts[3]).value,
                   tag |-> canon_tag(parts[4]).value,
                   category |-> canon_category(parts[5]).value,
                   installments |-> installments])

\* A slip: a refund is refused as soon as it names an installments count.
IsRefundInInstallments_any(installments, amount) ==
    amount.cents < 0 /\ installments # NULL /\ installments >= 1

\* Line 175: amount < 0 and installments is not None and installments > 1
IsRefundInInstallments(installments, amount) ==
    amount.cents < 0 /\ installments # NULL /\ installments > 1

\* A slip: the cross-field rule is checked after method, tag and category.
CheckRefund_last(parts, installments, amount) ==
    IF amount.exc # "none" THEN amount
    ELSE IF amount.value.kind = "NaN" THEN Raised("InvalidOperation", "")
    ELSE IF BuildExpense(parts, installments, amount.value).exc # "none"
         THEN BuildExpense(parts, installments, amount.value)
    ELSE IF IsRefundInInstallments(installments, amount.value)
         THEN Raised("ValueError", "Valores negativos nao podem ser parcelados")
    ELSE BuildExpense(parts, installments, amount.value)

\* Lines 173-188, amount being the outcome of br_to_decimal: its exception
\* propagates; amount < 0 on a NaN raises InvalidOperation; a negative
\* amount with installments > 1 is refused; then the Expense is built.
CheckRefund(parts, installments, amount) ==
    IF amount.exc # "none" THEN amount
    ELSE IF amount.value.kind = "NaN" THEN Raised("InvalidOperation", "")
    ELSE IF IsRefundInInstallments(installments, amount.value)
         THEN Raised("ValueError", "Valores negativos nao podem ser parcelados")
    ELSE BuildExpense(parts, installments, amount.value)

AllDigits(s) == s # <<>> /\ \A i \in 1 .. Len(s) : IsDigit(s[i])

\* A slip: a line without installments is given the count 1.
ParseInstallments_one(parts, inst_raw) ==
    IF inst_raw = <<>> THEN CheckRefund(parts, 1, br_to_decimal(parts[1]))
    ELSE IF ~AllDigits(inst_raw)
         THEN Raised("ValueError", "Parcelas deve ser um numero inteiro")
    ELSE CheckRefund(parts, NatOf(inst_raw, 1, Len(inst_raw) + 1, 0),
                     br_to_decimal(parts[1]))

\* A slip: a count of zero is refused like a malformed one.
ParseInstallments_positive(parts, inst_raw) ==
    IF inst_raw = <<>> THEN CheckRefund(parts, NULL, br_to_decimal(parts[1]))
    ELSE IF ~AllDigits(inst_raw) \/ NatOf(inst_raw, 1, Len(inst_raw) + 1, 0) = 0
         THEN Raised("ValueError", "Parcelas deve ser um numero inteiro")
    ELSE CheckRefund(parts, NatOf(inst_raw, 1, Len(inst_raw) + 1, 0),
                     br_to_decimal(parts[1]))

\* Lines 167-173, inst_raw being the stripped sixth field (empty when there
\* is none): empty gives None, digits give their number, anything else
\* raises; then the amount is parsed.
ParseInstallments(parts, inst_raw) ==
    IF inst_raw = <<>> THEN CheckRefund(parts, NULL, br_to_decimal(parts[1]))
    ELSE IF ~AllDigits(inst_raw)
         THEN Raised("ValueError", "Parcelas deve ser um numero inteiro")
    ELSE CheckRefund(parts, NatOf(inst_raw, 1, Len(inst_raw) + 1, 0),
                     br_to_decimal(parts[1]))

\* Lines 156-165 on the fields of the split.
ParseParts(parts) ==
    IF Len(parts) < 5 THEN Raised("ValueError", "Lancamento Incorreto")
    ELSE IF Strip(parts[2]) = <<>>
         THEN Raised("ValueError", "A descricao nao pode estar vazia")
    ELSE ParseInstallments(parts, IF Len(parts) > 5 THEN Strip(parts[6]) ELSE <<>>)

\* parse_message
parse_message(text) == ParseParts(SEP_RE_split(Strip(text), 5))

-----------------------------------------------------------------------------
(* The parser as a state machine (specification SpecParse): a line is       *)
(* received, and parse_message is applied to it and br_to_decimal to its    *)
(* first field.  A line is written as its fields, the delimiter character   *)
(* between them and the whitespace around each delimiter.                   *)

\* Amount tokens: plain, negative, negative rounding to zero, the thousands
\* form, malformed ones, a currency marker, a tie, and the words and the
\* exponent that Decimal accepts.
ValTokens ==
    {<<"3", "5", ",", "5", "0">>,
     <<"5">>,
     <<"-", "5">>,
     <<"-", "5", "0", "0", ",", "0", "0">>,
     <<"-", "0", ",", "0", "0", "1">>,
     <<"-", "0">>,
     <<"1", ".", "2", "3", "4", ",", "5", "6">>,
     <<"1", ",", "2", "3", "4", ",", "5", "6">>,
     <<"R", "$", " ", "5">>,
     <<"0", ",", "0", "2", "5">>,
     <<"N", "a", "N">>,
     <<"I", "n", "f", "i", "n", "i", "t", "y">>,
     <<"1", "e", "3", "0">>,
     <<"a", "b", "c">>,
     <<>>}

\* Installments fields: blank, digits, signed, fractional, letters, and
\* fields holding further delimiters.
InstTokens ==
    {<<>>,
     <<" ">>,
     <<"0">>,
     <<"1">>,
     <<"3">>,
     <<"1", "2">>,
     <<"-", "5">>,
     <<"3", ".", "5">>,
     <<"a", "b", "c">>,
     <<"+", "3">>,
     <<"3", " ", "-", " ", "4">>,
     <<"3", ";", "4">>}

\* Descriptions holding delimiter characters.
DescTokens ==
    {<<"a", "-", "-", "5">>,
     <<"a", "-", "b">>,
     <<"a", " ", "-", "-", " ", "b">>,
     <<"a", ",", "5">>,
     <<"a", ",", " ", "5">>,
     <<"a", ";", ";", "b">>,
     <<"a", "-", "-", "5", "|", "b">>}

Uber == <<"U", "b", "e", "r">>

ValidTail == <<<<"P", "i", "x">>, <<"G", "a", "s", "t", "o", "s", " ", "P", "e", "s", "s", "o", "a", "i", "s">>, <<"T", "r", "a", "n", "s", "p", "o", "r", "t", "e">>>>

\* The valid line of the tests: 35,50 - Uber - Pix - Gastos Pessoais -
\* Transporte, with the amount, the description or the installments replaced.
LineOf(val, desc) == <<val, desc>> \o ValidTail

FieldsAmount ==
    {LineOf(v, Uber) : v \in ValTokens}
    \cup {LineOf(v, Uber) \o <<n>> : v \in ValTokens, n \in {<<"1">>, <<"3">>}}

FieldsInstallments ==
    {LineOf(v, Uber) \o <<n>> : v \in {<<"5">>, <<"-", "5">>}, n \in InstTokens}

FieldsDescription == {LineOf(<<"5">>, d) : d \in DescTokens}

\* Lines cut short: 1 to 4 fields.
FieldsShort == {SubSeq(LineOf(<<"5">>, Uber), 1, k) : k \in 1 .. 4}

\* Lines with several wrong fields at once.
FieldsWrong ==
    {<<v, d, m, t, c>> \o n :
        v \in {<<"5">>, <<"-", "5">>, <<"a", "b", "c">>},
        d \in {<<"u", "b", "e", "r", " ", "d", "e", " ", "c", "a", "s", "a">>, <<>>},
        m \in {<<"p", "i", "x">>, <<"b", "i", "t", "c", "o", "i", "n">>},
        t \in {<<"g", "a", "s", "t", "o", "s", " ", "p", "e", "s", "s", "o", "a", "i", "s">>, <<"t", "r", "a", "b", "a", "l", "h", "o">>},
        c \in {<<"A", "l", "i", "m", "e", "n", "t", "a", "c,", "a~", "o">>, <<"I", "n", "v", "e", "s", "t", "i", "m", "e", "n", "t", "o", "s">>},
        n \in {<<>>, <<<<"3">>>>, <<<<"x">>>>}}

Fields ==
    FieldsAmount \cup FieldsInstallments \cup FieldsDescription
    \cup FieldsShort \cup FieldsWrong

\* The four delimiter characters, and the whitespace written on each side
\* of a delimiter: none or one space.
Separators == {"-", ";", "|", ","}
Pads == {<<>>, <<" ">>}

Lines == [fields : Fields, sep : Separators, pad : Pads]

RECURSIVE Join(_, _)
Join(fields, d) ==
    IF fields = <<>> THEN <<>>
    ELSE IF Len(fields) = 1 THEN fields[1]
    ELSE fields[1] \o d \o Join(Tail(fields), d)

\* The text of a line whose fields are joined with the delimiter sep.
TextWith(l, sep) == Join(l.fields, l.pad \o <<sep>> \o l.pad)

MessageText(l) == TextWith(l, l.sep)

InitParse ==
    /\ line \in Lines
    /\ outcome = NoOutcome
    /\ BotIdle /\ DashIdle /\ RetryIdle
    /\ store = NoStore
    /\ next_id = 1
    /\ ic = {}
    /\ working = {}
    /\ today = CYCLE_CHANGE_DATE
    /\ cycle_start = get_cycle_start(today)
    /\ cycles = get_current_and_previous_cycle_dates(today)

\* on_text hands the text of the message to parse_message.
ParseMessage ==
    /\ outcome' = [fn |-> "parse_message", res |-> parse_message(MessageText(line))]
    /\ UNCHANGED <<line, cycle_vars, store_vars, cte_vars, bot_vars, dash, retry>>

\* parse_message hands the first field to br_to_decimal (line 173).
BrToDecimal ==
    /\ outcome' = [fn |-> "br_to_decimal", res |-> br_to_decimal(line.fields[1])]
    /\ UNCHANGED <<line, cycle_vars, store_vars, cte_vars, bot_vars, dash, retry>>

NextParse == ParseMessage \/ BrToDecimal

SpecParse == InitParse /\ [][NextParse]_vars

Parsed == outcome.fn = "parse_message"

-----------------------------------------------------------------------------
(* Properties of the parser, under SpecParse.                               *)

\* The fields parse_message sees in the line, and its installments field.
Parts == SEP_RE_split(Strip(MessageText(line)), 5)
InstField == IF Len(Parts) > 5 THEN Strip(Parts[6]) ELSE <<>>
InstCount == NatOf(InstField, 1, Len(InstField) + 1, 0)

\* Description, method, tag and category of the line are valid.
OthersValid ==
    /\ Len(Parts) >= 5
    /\ Strip(Parts[2]) # <<>>
    /\ canon_method(Parts[3]).exc = "none"
    /\ canon_tag(Parts[4]).exc = "none"
    /\ canon_category(Parts[5]).exc = "none"

Accepted == outcome.res.exc = "none"
Fails(msg) == outcome.res.exc = "ValueError" /\ outcome.res.msg = msg

\* C12: every value br_to_decimal returns is >= 0 (a negative input yields
\* its absolute value), so the amount of every Expense parse_message
\* returns is non-negative.
C12_AmountNonNegative ==
    /\ (outcome.fn = "br_to_decimal" /\ Accepted /\ outcome.res.value.kind = "finite")
          => outcome.res.value.cents >= 0
    /\ (Parsed /\ Accepted) => outcome.res.value.amount.cents >= 0

\* The amount token denotes a number below zero.
TokenNegative(s) ==
    LET v == Decimal(NormalizeSeparators(StripCurrency(Strip(s))))
    IN v.kind = "finite" /\ v.neg /\ v.coef # 0

\* br_to_decimal returns an amount below zero for the token.
AmountNegative(s) ==
    /\ br_to_decimal(s).exc = "none"
    /\ br_to_decimal(s).value.kind = "finite"
    /\ br_to_decimal(s).value.cents < 0

\* C13 as stated: a line whose amount token is negative and whose other
\* fields are valid fails with the refund error when its installments field
\* is an integer > 1, and is accepted when the field is absent or 1.
C13_NegativeTokenRefused ==
    (Parsed /\ OthersValid /\ TokenNegative(Parts[1])
            /\ (InstField = <<>> \/ AllDigits(InstField))) =>
        IF InstField # <<>> /\ InstCount > 1
        THEN Fails("Valores negativos nao podem ser parcelados")
        ELSE Accepted

\* C13 (amended): a line whose amount is below zero once quantized to 2
\* decimals and whose other fields are valid fails with the refund error
\* when its installments field is an integer > 1, and is accepted when the
\* field is absent or at most 1; a negative token that quantizes to zero is
\* accepted whatever the installments count.
C13_NegativeAmountRefused ==
    (Parsed /\ OthersValid /\ TokenNegative(Parts[1])
            /\ (InstField = <<>> \/ AllDigits(InstField))) =>
        IF AmountNegative(Parts[1]) /\ InstField # <<>> /\ InstCount > 1
        THEN Fails("Valores negativos nao podem ser parcelados")
        ELSE /\ Accepted
             /\ outcome.res.value.installments =
                    (IF InstField = <<>> THEN NULL ELSE InstCount)

\* "-5 - Uber - Pix - Gastos Pessoais - Transporte - 3" is refused.
C13_Witness ==
    /\ Parsed
    /\ line.fields = LineOf(<<"-", "5">>, Uber) \o <<<<"3">>>>
    /\ line.sep = "-"
    /\ line.pad = <<" ">>
    /\ OthersValid
    /\ InstField = <<"3">>
    /\ Fails("Valores negativos nao podem ser parcelados")

\* The amount token of the line is one br_to_decimal turns into an amount.
AmountValid ==
    /\ br_to_decimal(Parts[1]).exc = "none"
    /\ br_to_decimal(Parts[1]).value.kind = "finite"

\* C14 as stated: every Expense parse_message returns has installments None
\* or an integer >= 1; a count of 0 is rejected.
C14_InstallmentsPositive ==
    (Parsed /\ Accepted) =>
        \/ outcome.res.value.installments = NULL
        \/ outcome.res.value.installments >= 1

\* C14 (amended): every Expense parse_message returns has installments None
\* or an integer >= 0; the token "0" is accepted and yields installments 0
\* (a signed count is rejected by the digits-only check).
C14_InstallmentsNonNegative ==
    /\ (Parsed /\ Accepted) =>
          \/ outcome.res.value.installments = NULL
          \/ outcome.res.value.installments >= 0
    /\ (Parsed /\ OthersValid /\ AmountValid /\ InstField = <<"0">>) =>
          Accepted /\ outcome.res.value.installments = 0

\* "5 - Uber - Pix - Gastos Pessoais - Transporte - 0" yields installments 0.
C14_Witness ==
    /\ Parsed
    /\ line.fields = LineOf(<<"5">>, Uber) \o <<<<"0">>>>
    /\ InstField = <<"0">>
    /\ Accepted
    /\ outcome.res.value.installments = 0

\* A string of one or more decimal digits.
IsDigitString(s) ==
    /\ s # <<>>
    /\ \A i \in 1 .. Len(s) :
          s[i] \in {"0", "1", "2", "3", "4", "5", "6", "7", "8", "9"}

Smaller(a, b) == IF a < b THEN a ELSE b

DigitAt(t, i) ==
    i <= Len(t) /\ t[i] \in {"0", "1", "2", "3", "4", "5", "6", "7", "8", "9"}

\* The delimiters of a text as C16 states them: the first hyphen of every
\* run of hyphens, every semicolon, every pipe, and every comma that no
\* digit follows.
StatedDelimiters(t) ==
    {i \in 1 .. Len(t) :
        \/ t[i] = "-" /\ (i = 1 \/ t[i - 1] # "-")
        \/ t[i] \in {";", "|"}
        \/ t[i] = "," /\ ~DigitAt(t, i + 1)}

\* The same with the lookahead on hyphens: the first hyphen of a run opens
\* a delimiter unless a digit follows that very hyphen.
LookaheadDelimiters(t) ==
    {i \in 1 .. Len(t) :
        \/ t[i] = "-" /\ (i = 1 \/ t[i - 1] # "-") /\ ~DigitAt(t, i + 1)
        \/ t[i] \in {";", "|"}
        \/ t[i] = "," /\ ~DigitAt(t, i + 1)}

\* C16 as stated: every run of hyphens, every semicolon, every pipe and
\* every comma not followed by a digit is a field delimiter; splitting stops
\* after the 5th delimiter, so at most 6 fields result and any later
\* delimiter stays inside field 6.
C16_EveryHyphenRunDelimits ==
    Parsed =>
        LET t == Strip(MessageText(line))
            n == Cardinality(StatedDelimiters(t))
        IN /\ Len(Parts) = Smaller(6, n + 1)
           /\ \A k \in 1 .. Smaller(5, Len(Parts)) : StatedDelimiters(Parts[k]) = {}
           /\ Len(Parts) = 6 => Cardinality(StatedDelimiters(Parts[6])) = n - 5

\* C16 (amended): every semicolon and every pipe is a field delimiter, a
\* comma is one exactly when no digit follows it, and a run of hyphens is
\* one unless it is a single hyphen immediately followed by a digit (of a
\* longer run before a digit, the last hyphen stays with the digit);
\* splitting stops after the 5th delimiter, so at most 6 fields result and
\* any later delimiter stays inside field 6.
C16_HyphenBeforeDigitStays ==
    Parsed =>
        LET t == Strip(MessageText(line))
            n == Cardinality(LookaheadDelimiters(t))
        IN /\ Len(Parts) = Smaller(6, n + 1)
           /\ \A k \in 1 .. Smaller(5, Len(Parts)) : LookaheadDelimiters(Parts[k]) = {}
           /\ Len(Parts) = 6 => Cardinality(LookaheadDelimiters(Parts[6])) = n - 5

\* "5;a--5|b;Pix;Gastos Pessoais;Transporte": the description splits at its
\* first hyphen and at its pipe, "-5" becomes the third field, and the
\* sixth field "Gastos Pessoais;Transporte" keeps the 6th delimiter.
C16_Witness ==
    /\ Parsed
    /\ line.fields = LineOf(<<"5">>, <<"a", "-", "-", "5", "|", "b">>)
    /\ line.sep = ";"
    /\ line.pad = <<>>
    /\ Len(Parts) = 6
    /\ Parts[2] = <<"a">>
    /\ Parts[3] = <<"-", "5">>
    /\ Parts[4] = <<"b">>
    /\ Cardinality(LookaheadDelimiters(Parts[6])) = 1

\* The same Expense or the same error.
SameResult(a, b) == a.exc = b.exc /\ a.msg = b.msg /\ a.value = b.value

\* A 5-field line, or a 6-field line whose sixth field is a count.
FiveOrSixFields ==
    \/ Len(line.fields) = 5
    \/ Len(line.fields) = 6 /\ IsDigitString(line.fields[6])

\* A field after the first starts with a digit.
DigitAfterDelimiter ==
    \E k \in 2 .. Len(line.fields) : DigitAt(line.fields[k], 1)

EmptyField == \E k \in 1 .. Len(line.fields) : line.fields[k] = <<>>

StructureFailure ==
    IF Len(Parts) < 5 THEN "Lancamento Incorreto"
    ELSE IF Strip(Parts[2]) = <<>> THEN "A descricao nao pode estar vazia"
    ELSE IF InstField # <<>> /\ ~IsDigitString(InstField)
         THEN "Parcelas deve ser um numero inteiro"
    ELSE ""

\* The failure of the amount: what br_to_decimal raises, or the
\* InvalidOperation of comparing a NaN with zero ("none" when there is none).
AmountFailure ==
    IF br_to_decimal(Parts[1]).exc # "none"
    THEN <<br_to_decimal(Parts[1]).exc, br_to_decimal(Parts[1]).msg>>
    ELSE IF br_to_decimal(Parts[1]).value.kind = "NaN" THEN <<"InvalidOperation", "">>
    ELSE <<"none", "">>

\* The first unknown value among method, tag and category.
CanonFailure ==
    IF canon_method(Parts[3]).exc # "none" THEN "Metodo invalido"
    ELSE IF canon_tag(Parts[4]).exc # "none" THEN "Tag invalida"
    ELSE IF canon_category(Parts[5]).exc # "none" THEN "Categoria invalida"
    ELSE ""

RefundFailure ==
    IF AmountNegative(Parts[1]) /\ InstField # <<>> /\ InstCount > 1
    THEN "Valores negativos nao podem ser parcelados" ELSE ""

Failure == <<outcome.res.exc, outcome.res.msg>>

\* C18 as stated: the first failing check is reported, in the order field
\* count, description, installments syntax, amount, method, tag, category
\* and last the negative-amount-with-installments rule.
C18_RefundRuleLast ==
    Parsed =>
        Failure =
            IF StructureFailure # "" THEN <<"ValueError", StructureFailure>>
            ELSE IF AmountFailure # <<"none", "">> THEN AmountFailure
            ELSE IF CanonFailure # "" THEN <<"ValueError", CanonFailure>>
            ELSE IF RefundFailure # "" THEN <<"ValueError", RefundFailure>>
            ELSE <<"none", "">>

\* C18 (amended): the first failing check is reported, in the order field
\* count, description, installments syntax, amount, the
\* negative-amount-with-installments rule, method, tag and last category; at
\* the amount step whatever br_to_decimal raises is reported.
C18_RefundRuleBeforeMethod ==
    Parsed =>
        Failure =
            IF StructureFailure # "" THEN <<"ValueError", StructureFailure>>
            ELSE IF AmountFailure # <<"none", "">> THEN AmountFailure
            ELSE IF RefundFailure # "" THEN <<"ValueError", RefundFailure>>
            ELSE IF CanonFailure # "" THEN <<"ValueError", CanonFailure>>
            ELSE <<"none", "">>

\* "-5 - uber de casa - bitcoin - trabalho - Investimentos - 3": the refund
\* rule is reported, not the unknown method.
C18_Witness ==
    /\ Parsed
    /\ line.fields[1] = <<"-", "5">>
    /\ line.pad = <<" ">>
    /\ StructureFailure = ""
    /\ CanonFailure = "Metodo invalido"
    /\ RefundFailure # ""
    /\ Fails("Valores negativos nao podem ser parcelados")

\* The kind of an error is the class of the exception raised: the class
\* raised for a wrong field count (line 157) and the class raised for an
\* empty description (line 165).
FormatKind == ParseParts(<<>>).exc
ValidationKind == ParseParts(<<<<>>, <<>>, <<>>, <<>>, <<>>>>).exc

\* C19: a failure of parse_message is distinguishable by kind without its
\* text: a failure has the Format kind exactly when the field count is
\* wrong, every other failure has the Validation kind, and there is no
\* other kind.
C19_FailureKinds ==
    (Parsed /\ ~Accepted) =>
        /\ (outcome.res.exc = FormatKind) <=> (Len(Parts) < 5)
        /\ (Len(Parts) >= 5) => outcome.res.exc = ValidationKind
        /\ outcome.res.exc \in {FormatKind, ValidationKind}

\* C20: for every amount token br_to_decimal either returns a finite
\* decimal or raises the "Valor invalido" ValueError, and parse_message
\* raises no exception that is not a ValueError.
C20_FiniteOrValueError ==
    /\ (outcome.fn = "br_to_decimal") =>
          \/ Accepted /\ outcome.res.value.kind = "finite"
          \/ Fails("Valor invalido")
    /\ Parsed => outcome.res.exc \in {"none", "ValueError"}

-----------------------------------------------------------------------------
(* The canonical mapping and the title case on their own: a raw text is     *)
(* handed to canon_method, canon_tag, canon_category or titleize_pt.        *)

ToUpper(s) == [i \in 1 .. Len(s) |-> UpperChar(s[i])]

Unaccented(s) == [i \in 1 .. Len(s) |-> Unaccent(s[i])]

\* Every space of the text doubled.
RECURSIVE WidenSpaces(_)
WidenSpaces(s) ==
    IF s = <<>> THEN <<>>
    ELSE IF IsSpace(Head(s)) THEN <<" ", " ">> \o WidenSpaces(Tail(s))
    ELSE <<Head(s)>> \o WidenSpaces(Tail(s))

Padded(s) == <<" ">> \o s \o <<" ", " ">>

\* The spellings of a canonical value that differ from it in case,
\* diacritics and whitespace runs only.
Spellings(d) ==
    {d, ToUpper(d), ToLower(d), Unaccented(d), WidenSpaces(d), Padded(d),
     ToUpper(Unaccented(Padded(WidenSpaces(d))))}

\* Raw texts that name no canonical value.
UnknownRaws ==
    {<<"b", "i", "t", "c", "o", "i", "n">>,
     <<>>,
     <<"p", "i", " ", "x">>,
     <<"c", "a", "r", "t", "a", "o">>,
     <<"C", "a", "r", "t", "a~", "o", "-", "d", "e", "-", "C", "r", "e'", "d", "i", "t", "o">>,
     <<"t", "r", "a", "n", "s", "p", "o", "r", "t", "e", "s">>,
     <<"g", "a", "s", "t", "o", "s">>,
     <<"P", "i", "x", ".">>}

RawTexts ==
    UNION {Spellings(d) : d \in METHODS_DISPLAY \cup TAGS_DISPLAY \cup CATEGORIES_DISPLAY}
    \cup UnknownRaws

\* Texts handed to titleize_pt: the texts of the tests, connectives in first
\* and later positions, hyphenated fragments, whitespace runs, upper case.
TitleTexts ==
    {<<"u", "b", "e", "r">>,
     <<"g", "a", "s", "t", "o", "s", " ", "d", "e", " ", "c", "a", "s", "a">>,
     <<"c", "a", "r", "t", "a~", "o", " ", "d", "e", " ", "c", "r", "e'", "d", "i", "t", "o">>,
     <<"d", "e", " ", "c", "a", "s", "a">>,
     <<"p", "r", "e'", "-", "p", "a", "g", "o">>,
     <<>>,
     <<" ", " ", "u", "b", "e", "r", " ">>,
     <<"U", "B", "E", "R", " ", "D", "O", " ", "B", "R", "A", "S", "I", "L">>,
     <<"a", " ", " ", "b">>,
     <<"-", "d", "e", " ", "c", "a", "s", "a">>,
     <<"p", "r", "e'", "-", "d", "e", "-", "c", "a", "s", "a">>,
     <<"e">>,
     <<"5", "k", "g", " ", "d", "e", " ", "a", "r", "r", "o", "z">>,
     <<"m", "c", "D", "o", "n", "a", "l", "d", "s">>,
     <<"a'", "g", "u", "a", " ", "e", " ", "l", "u", "z">>,
     <<"A!", "S", " ", "v", "e", "z", "e", "s">>,
     <<"c", "a", "f", "e'", " ", "d", "a", " ", "m", "a", "n", "h", "a~", " ", "-", " ", "p", "a~", "o">>,
     <<"D", "E">>,
     <<"c", "o", "n", "t", "a", " ", "d", "e", "-", "l", "u", "z">>,
     <<"a", "l", "m", "o", "c,", "o", " ", "c", "o", "m", " ", "a", " ", "a", "n", "a">>,
     <<" ", "-", " ">>,
     <<"x", "-">>}

Texts == [fields : {<<t>> : t \in RawTexts \cup TitleTexts}, sep : {""}, pad : {<<>>}]

InitText ==
    /\ line \in Texts
    /\ outcome = NoOutcome
    /\ BotIdle /\ DashIdle /\ RetryIdle
    /\ store = NoStore
    /\ next_id = 1
    /\ ic = {}
    /\ working = {}
    /\ today = CYCLE_CHANGE_DATE
    /\ cycle_start = get_cycle_start(today)
    /\ cycles = get_current_and_previous_cycle_dates(today)

CanonMethod ==
    /\ outcome' = [fn |-> "canon_method", res |-> canon_method(line.fields[1])]
    /\ UNCHANGED <<line, cycle_vars, store_vars, cte_vars, bot_vars, dash, retry>>

CanonTag ==
    /\ outcome' = [fn |-> "canon_tag", res |-> canon_tag(line.fields[1])]
    /\ UNCHANGED <<line, cycle_vars, store_vars, cte_vars, bot_vars, dash, retry>>

CanonCategory ==
    /\ outcome' = [fn |-> "canon_category", res |-> canon_category(line.fields[1])]
    /\ UNCHANGED <<line, cycle_vars, store_vars, cte_vars, bot_vars, dash, retry>>

TitleizePt ==
    /\ outcome' = [fn |-> "titleize_pt", res |-> Returned(titleize_pt(line.fields[1]))]
    /\ UNCHANGED <<line, cycle_vars, store_vars, cte_vars, bot_vars, dash, retry>>

NextText == CanonMethod \/ CanonTag \/ CanonCategory \/ TitleizePt

SpecText == InitText /\ [][NextText]_vars

-----------------------------------------------------------------------------
(* Properties of the canonical mapping and of the title case, under         *)
(* SpecText.                                                                *)

RawText == line.fields[1]

CanonCalled == outcome.fn \in {"canon_method", "canon_tag", "canon_category"}

\* The closed canonical list of the function that was called.
CanonicalList ==
    IF outcome.fn = "canon_method" THEN METHODS_DISPLAY
    ELSE IF outcome.fn = "canon_tag" THEN TAGS_DISPLAY
    ELSE CATEGORIES_DISPLAY

\* The outcome of the function that was called, on another raw text.
SameCall(raw) ==
    IF outcome.fn = "canon_method" THEN canon_method(raw)
    ELSE IF outcome.fn = "canon_tag" THEN canon_tag(raw)
    ELSE canon_category(raw)

NormalizedKey(raw) == strip_accents_lower(raw)

\* C21: canon_method, canon_tag and canon_category are insensitive to case,
\* diacritics and whitespace runs: a spelling of a canonical value gives
\* that value, two raw texts with the same normalized key give the same
\* outcome, a hit is a member of the canonical list, each canonical value
\* maps to itself, and a miss raises the validation error and returns
\* nothing.
C21_CanonInsensitive ==
    CanonCalled =>
        /\ \A d \in CanonicalList :
              /\ RawText \in Spellings(d) => outcome.res = Returned(d)
              /\ SameCall(d) = Returned(d)
        /\ \A other \in RawTexts :
              NormalizedKey(other) = NormalizedKey(RawText) => SameCall(other) = outcome.res
        /\ outcome.res.exc = "none" => outcome.res.value \in CanonicalList
        /\ (\A d \in CanonicalList : NormalizedKey(d) # NormalizedKey(RawText)) =>
              /\ outcome.res.exc = "ValueError"
              /\ outcome.res.value = <<>>

C21_Witness ==
    /\ outcome.fn = "canon_method"
    /\ RawText = <<" ", "C", "A", "R", "T", "A", "O", " ", " ", "D", "E", " ", " ", "C", "R", "E", "D", "I", "T", "O", " ", " ">>
    /\ outcome.res = Returned(<<"C", "a", "r", "t", "a~", "o", " ", "d", "e", " ", "C", "r", "e'", "d", "i", "t", "o">>)

Titleized == outcome.fn = "titleize_pt"

\* The text titleize_pt works on: stripped and lowercased.
Lowered == ToLower(Strip(RawText))

\* Position i starts a token: it holds no separator and follows one, or
\* starts the text.
TokenStartAt(s, i) == ~IsTitleSep(s[i]) /\ (i = 1 \/ IsTitleSep(s[i - 1]))

\* The token that starts at position i: it runs up to the next separator.
TokenAt(s, i) ==
    SubSeq(s, i, CHOOSE j \in i .. Len(s) :
                     /\ \A k \in i .. j : ~IsTitleSep(s[k])
                     /\ (j = Len(s) \/ IsTitleSep(s[j + 1])))

IsFirstToken(s, i) == \A k \in 1 .. i - 1 : IsTitleSep(s[k])

\* C22: titleize_pt lowercases the text, then capitalizes the first token
\* whatever it is and every later token that is not exactly a connective
\* of LOWER_WORDS, which stays lowercase; tokens are delimited by
\* whitespace and hyphens, a fragment after a hyphen obeying the same rule.
C22_TitleCase ==
    Titleized =>
        /\ Len(outcome.res.value) = Len(Lowered)
        /\ \A i \in 1 .. Len(Lowered) :
              outcome.res.value[i] =
                  IF /\ TokenStartAt(Lowered, i)
                     /\ (IsFirstToken(Lowered, i) \/ TokenAt(Lowered, i) \notin LOWER_WORDS)
                  THEN UpperChar(Lowered[i])
                  ELSE Lowered[i]
        /\ RawText = <<"p", "r", "e'", "-", "p", "a", "g", "o">> => outcome.res.value = <<"P", "r", "e'", "-", "P", "a", "g", "o">>
        /\ RawText = <<"d", "e", " ", "c", "a", "s", "a">> => outcome.res.value = <<"D", "e", " ", "C", "a", "s", "a">>

C22_Witness ==
    /\ Titleized
    /\ RawText = <<"p", "r", "e'", "-", "d", "e", "-", "c", "a", "s", "a">>
    /\ outcome.res.value = <<"P", "r", "e'", "-", "d", "e", "-", "C", "a", "s", "a">>

\* Two texts hold the same characters in the same positions up to case.
SameUpToCase(a, b) ==
    /\ Len(a) = Len(b)
    /\ \A i \in 1 .. Len(a) : LowerChar(a[i]) = LowerChar(b[i])

\* C23: titleize_pt returns the characters of its input in the same
\* positions up to letter case, leading and trailing whitespace included.
C23_SameCharacters ==
    Titleized => SameUpToCase(outcome.res.value, RawText)

\* C23 (as the code has it): titleize_pt returns the characters of its
\* input without the leading and trailing whitespace, in the same positions
\* up to letter case; the separators inside the text are kept verbatim, and
\* the empty text gives the empty text.
C23_SameCharactersStripped ==
    Titleized =>
        /\ SameUpToCase(outcome.res.value, Strip(RawText))
        /\ \A i \in 1 .. Len(outcome.res.value) :
              IsTitleSep(Strip(RawText)[i]) => outcome.res.value[i] = Strip(RawText)[i]
        /\ RawText = <<>> => outcome.res.value = <<>>

C23_Witness ==
    /\ Titleized
    /\ RawText = <<" ", " ", "u", "b", "e", "r", " ">>
    /\ outcome.res.value = <<"U", "b", "e", "r">>

-----------------------------------------------------------------------------
(* The bot handlers (src/src/bot_service/handlers.py), specification        *)
(* SpecBot: each action is one handler run on one update.  A reply is the   *)
(* mark that opens it, its text (named by its first words, written without  *)
(* diacritics) and the data it shows.  None is the model's NULL.            *)

\* Effective users of an update: none, user 0 and two users.
BotUsers == {NULL, 0, 1, 2}

\* Configured ALLOWED_USER_ID values: None, a negative one, the default 0
\* and a user.
AllowedUserIds == {NULL, -5, 0, 1}

\* Texts of a text message: two valid lines (one in 3 installments), a line
\* of 3 fields, an unknown method, an amount Decimal reads as NaN, a blank
\* text, and no text at all.
BotTexts ==
    {MessageText([fields |-> f, sep |-> "-", pad |-> <<" ">>]) :
        f \in {LineOf(<<"3", "5", ",", "5", "0">>, Uber),
               LineOf(<<"3", "5", ",", "5", "0">>, Uber) \o <<<<"3">>>>,
               <<<<"3", "5", ",", "5", "0">>, Uber, <<"P", "i", "x">>>>,
               <<<<"5">>, Uber, <<"b", "i", "t", "c", "o", "i", "n">>, ValidTail[2], ValidTail[3]>>,
               LineOf(<<"N", "a", "N">>, Uber)}}
    \cup {<<" ">>, <<>>}

Updates(h) ==
    [handler : {h}, user : BotUsers, has_message : BOOLEAN,
     text : IF h = "on_text" THEN BotTexts ELSE {<<>>}]

Reply(mark, text, data) == [mark |-> mark, text |-> text, data |-> data]

\* A slip: only an ALLOWED_USER_ID of None is taken as not configured.
ensure_auth_unset(u) ==
    IF allowed_user_id = NULL
    THEN [ok |-> FALSE,
          replies |-> IF u.has_message
                      THEN <<Reply("", "Bot nao configurado corretamente.", <<>>)>>
                      ELSE <<>>]
    ELSE IF u.user = NULL \/ u.user # allowed_user_id
    THEN [ok |-> FALSE,
          replies |-> IF u.has_message
                      THEN <<Reply("", "Usuario nao autorizado.", <<>>)>>
                      ELSE <<>>]
    ELSE [ok |-> TRUE, replies |-> <<>>]

\* ensure_auth: the verdict and the replies it sends.
ensure_auth(u) ==
    IF allowed_user_id = NULL \/ allowed_user_id <= 0
    THEN [ok |-> FALSE,
          replies |-> IF u.has_message
                      THEN <<Reply("", "Bot nao configurado corretamente.", <<>>)>>
                      ELSE <<>>]
    ELSE IF u.user = NULL \/ u.user # allowed_user_id
    THEN [ok |-> FALSE,
          replies |-> IF u.has_message
                      THEN <<Reply("", "Usuario nao autorizado.", <<>>)>>
                      ELSE <<>>]
    ELSE [ok |-> TRUE, replies |-> <<>>]

\* What a handler run leaves: the update, the replies sent, the repository
\* calls made and the exception it ended with.
Handle(u, sent, calls, exc) ==
    /\ update' = u
    /\ replies' = sent
    /\ repo_calls' = calls
    /\ handled' = [auth |-> ensure_auth(u).ok, exc |-> exc]
    /\ UNCHANGED <<allowed_user_id, cycle_vars, cte_vars, parse_vars, dash, retry>>

\* if not await ensure_auth(update): return
Denied(u) ==
    /\ ~ensure_auth(u).ok
    /\ Handle(u, ensure_auth(u).replies, <<>>, "none")
    /\ UNCHANGED store_vars

\* update.message.reply_text(...) at the end of a handler: without a
\* message it raises AttributeError.
ReplyWith(u, reply, calls) ==
    IF u.has_message THEN Handle(u, <<reply>>, calls, "none")
    ELSE Handle(u, <<>>, calls, "AttributeError")

cmd_help ==
    \E u \in Updates("cmd_help") :
        \/ Denied(u)
        \/ /\ ensure_auth(u).ok
           /\ ReplyWith(u, Reply("", "Como lancar um gasto?", <<>>), <<>>)
           /\ UNCHANGED store_vars

\* check_connection returns False when the database fails.
cmd_health ==
    \E u \in Updates("cmd_health") :
        \/ Denied(u)
        \/ /\ ensure_auth(u).ok
           /\ \E db_ok \in BOOLEAN :
                ReplyWith(u, IF db_ok THEN Reply("ok", "Banco OK", <<>>)
                             ELSE Reply("boom", "Banco indisponivel", <<>>),
                          <<"check_connection">>)
           /\ UNCHANGED store_vars

\* A slip: the last record is deleted before the authorization is looked at.
cmd_undo_unchecked ==
    \E u \in Updates("cmd_undo") :
        /\ store # <<>>
        /\ Handle(u, ensure_auth(u).replies, <<"delete_last_expense">>, "none")
        /\ store' = SubSeq(store, 1, Len(store) - 1)
        /\ UNCHANGED next_id

\* A repository call that fails raises out of the handler.
cmd_undo ==
    \E u \in Updates("cmd_undo") :
        \/ Denied(u)
        \/ /\ ensure_auth(u).ok
           /\ Handle(u, <<>>, <<"delete_last_expense">>, "psycopg.Error")
           /\ UNCHANGED store_vars
        \/ /\ ensure_auth(u).ok
           /\ store = <<>>
           /\ ReplyWith(u, Reply("", "Nada para remover.", <<>>), <<"delete_last_expense">>)
           /\ UNCHANGED store_vars
        \/ /\ ensure_auth(u).ok
           /\ store # <<>>
           /\ ReplyWith(u, Reply("", "Ultimo lancamento removido", <<store[Len(store)].id>>),
                        <<"delete_last_expense">>)
           /\ store' = SubSeq(store, 1, Len(store) - 1)
           /\ UNCHANGED next_id

\* get_last_n_expenses(limit=5): the rows of greatest id, newest first.
cmd_last ==
    \E u \in Updates("cmd_last") :
        \/ Denied(u)
        \/ /\ ensure_auth(u).ok
           /\ UNCHANGED store_vars
           /\ \/ Handle(u, <<>>, <<"get_last_n_expenses">>, "psycopg.Error")
              \/ IF store = <<>>
                 THEN ReplyWith(u, Reply("", "Nenhum lancamento encontrado.", <<>>),
                                <<"get_last_n_expenses">>)
                 ELSE ReplyWith(u, Reply("", "Ultimos 5 Lancamentos",
                                         [i \in 1 .. Len(store) |-> store[Len(store) + 1 - i].id]),
                                <<"get_last_n_expenses">>)

\* Lines 220-254 of on_text, with the result of parse_message: a ValueError
\* is answered with its text, any other exception with the fixed text, and
\* add_expense runs once the Expense exists.
OnTextParsed(u, res) ==
    IF res.exc = "ValueError"
    THEN /\ Handle(u, <<Reply("warning", res.msg, <<>>)>>, <<>>, "none")
         /\ UNCHANGED store_vars
    ELSE IF res.exc # "none"
    THEN /\ Handle(u, <<Reply("boom", "Ocorreu um erro inesperado", <<>>)>>, <<>>, "none")
         /\ UNCHANGED store_vars
    ELSE \/ /\ Handle(u, <<Reply("boom", "Ocorreu um erro inesperado", <<>>)>>,
                      <<"add_expense">>, "none")
            /\ UNCHANGED store_vars
         \/ \E t \in Times :
               /\ next_id <= MaxStore
               /\ store # <<>> => ~TsAfter(LastTs(store), [date |-> today, time |-> t])
               /\ store' = Append(store, [id |-> next_id,
                                          expense_ts |-> [date |-> today, time |-> t],
                                          amount |-> res.value.amount.cents,
                                          installments |-> res.value.installments])
               /\ next_id' = next_id + 1
               /\ Handle(u, <<Reply("ok", "Lancamento Registrado", <<next_id>>)>>,
                         <<"add_expense">>, "none")

on_text ==
    \E u \in Updates("on_text") :
        \/ Denied(u)
        \/ /\ ensure_auth(u).ok
           /\ ~u.has_message \/ u.text = <<>>
           /\ Handle(u, <<>>, <<>>, "none")
           /\ UNCHANGED store_vars
        \/ /\ ensure_auth(u).ok
           /\ u.has_message
           /\ u.text # <<>>
           /\ OnTextParsed(u, parse_message(Strip(u.text)))

cmd_balance ==
    \E u \in Updates("cmd_balance") :
        \/ Denied(u)
        \/ /\ ensure_auth(u).ok
           /\ UNCHANGED store_vars
           /\ \/ Handle(u, <<>>, <<"get_total_spent_in_period">>, "psycopg.Error")
              \/ ReplyWith(u, Reply("", "Balanco do Ciclo Atual",
                                      <<get_current_and_previous_cycle_dates(today).current,
                                        get_total_spent_in_period(
                                            Table(store),
                                            get_current_and_previous_cycle_dates(today).current.start,
                                            today)>>),
                             <<"get_total_spent_in_period">>)

InitBot ==
    /\ allowed_user_id \in AllowedUserIds
    /\ update = NoUpdate
    /\ replies = <<>>
    /\ repo_calls = <<>>
    /\ handled = [auth |-> FALSE, exc |-> "none"]
    /\ DashIdle /\ RetryIdle
    /\ line = NoLine
    /\ outcome = NoOutcome
    /\ store = NoStore
    /\ next_id = 1
    /\ ic = {}
    /\ working = {}
    /\ today = CYCLE_CHANGE_DATE
    /\ cycle_start = get_cycle_start(today)
    /\ cycles = get_current_and_previous_cycle_dates(today)

NextBot == cmd_help \/ cmd_health \/ cmd_undo \/ cmd_last \/ on_text \/ cmd_balance

SpecBot == InitBot /\ [][NextBot]_vars

-----------------------------------------------------------------------------
(* Properties of the handlers, under SpecBot.                               *)

\* A handler has run on the update.
Handled == update.handler # "none"

Rejections ==
    {Reply("", "Bot nao configurado corretamente.", <<>>),
     Reply("", "Usuario nao autorizado.", <<>>)}

OnlyRejections(sent) == \A i \in 1 .. Len(sent) : sent[i] \in Rejections

\* C24: ensure_auth returns True if and only if ALLOWED_USER_ID is a
\* positive integer and the effective user of the update is that user; it
\* denies everybody (user 0 too) when ALLOWED_USER_ID is None, 0 or
\* negative, denies an update without effective user, sends at most one
\* rejection on denial and does not fail when the update has no message.
C24_AuthorizedOnlyAllowedUser ==
    Handled =>
        /\ handled.auth <=>
              /\ allowed_user_id > 0
              /\ update.user # NULL
              /\ update.user = allowed_user_id
        /\ ~handled.auth =>
              /\ Len(replies) <= 1
              /\ OnlyRejections(replies)
              /\ handled.exc = "none"
              /\ ~update.has_message => replies = <<>>

C24_Witness ==
    /\ Handled
    /\ allowed_user_id = 0
    /\ update.user = 0
    /\ update.has_message
    /\ ~handled.auth
    /\ replies = <<Reply("", "Bot nao configurado corretamente.", <<>>)>>

\* C25: in every handler the authorization check comes first: a run on an
\* update that ensure_auth denies makes no repository call, leaves the
\* store as it is and sends no reply other than the rejection.
C25_AuthorizationFirst ==
    [][(update'.handler # "none" /\ ~handled'.auth) =>
          /\ repo_calls' = <<>>
          /\ store' = store
          /\ next_id' = next_id
          /\ OnlyRejections(replies')]_vars

C25_Witness ==
    /\ update.handler = "cmd_undo"
    /\ ~handled.auth
    /\ update.user = 2
    /\ allowed_user_id = 1
    /\ store # <<>>
    /\ replies = <<Reply("", "Usuario nao autorizado.", <<>>)>>
    /\ repo_calls = <<>>

\* An authorized text message reached parse_message.
TextParsed ==
    /\ update.handler = "on_text"
    /\ handled.auth
    /\ update.has_message
    /\ update.text # <<>>

\* C26: for an authorized text message on_text calls add_expense at most
\* once and only after parse_message succeeded; when parse_message fails
\* nothing is persisted and the user receives exactly one reply, whose text
\* is the message of the error.
C26_ParseFailureReported ==
    TextParsed =>
        /\ Len(repo_calls) <= 1
        /\ repo_calls # <<>> => parse_message(Strip(update.text)).exc = "none"
        /\ parse_message(Strip(update.text)).exc # "none" =>
              /\ repo_calls = <<>>
              /\ Len(replies) = 1
              /\ replies[1].text = parse_message(Strip(update.text)).msg

-----------------------------------------------------------------------------
(* The previous cycle, under SpecCycle.                                     *)

\* C28: the previous cycle that get_current_and_previous_cycle_dates reports
\* for today is the current cycle of the day before the current cycle's
\* start, and it ends the day before the current cycle starts.
C28_PreviousIsCycleBefore ==
    /\ cycles.previous.end + 1 = cycles.current.start
    /\ cycles.previous =
          get_current_and_previous_cycle_dates(cycles.current.start - 1).current

C28_Witness ==
    /\ today = CYCLE_CHANGE_DATE + 5
    /\ cycles.current.start = CYCLE_CHANGE_DATE
    /\ cycles.previous = [start |-> Date(2025, 9, 4), end |-> Date(2025, 10, 3)]
    /\ get_current_and_previous_cycle_dates(Date(2025, 10, 3)).current = cycles.previous

-----------------------------------------------------------------------------
(* The dashboard's period selection                                         *)
(* (src/src/dashboard_service/streamlit_app.py), specification SpecDash:    *)
(* the period is selected by invoice month or by a range of dates.          *)

\* get_invoice_month_for_date: the first day of the invoice month of an
\* expense date.
get_invoice_month_for_date(expense_date) ==
    IF expense_date < CYCLE_CHANGE_DATE
    THEN IF Civil(expense_date).day >= CYCLE_RESET_DAY_OLD
         THEN ReplaceDay(AddMonths(expense_date, 1), 1)
         ELSE ReplaceDay(expense_date, 1)
    ELSE IF expense_date <= CYCLE_TRANSITION_END_DATE
    THEN Date(2025, 11, 1)
    ELSE IF Civil(expense_date).day >= CYCLE_RESET_DAY_NEW
    THEN ReplaceDay(AddMonths(expense_date, 1), 1)
    ELSE ReplaceDay(expense_date, 1)

\* The regular branches of billing_cycle_range (lines 198-204).
RegularRange(invoice_month, cycle_day) ==
    [start |-> AddMonths(ReplaceDay(invoice_month, cycle_day - 1), -1) + 1,
     end |-> ReplaceDay(invoice_month, cycle_day - 1)]

\* A slip: the transition invoice month is not special-cased.
billing_cycle_range_regular(invoice_month) ==
    IF invoice_month >= AddMonths(ReplaceDay(CYCLE_CHANGE_DATE, 1), 1)
    THEN RegularRange(invoice_month, CYCLE_RESET_DAY_NEW)
    ELSE RegularRange(invoice_month, CYCLE_RESET_DAY_OLD)

\* billing_cycle_range(year, month), the invoice month given by its first
\* day.
billing_cycle_range(invoice_month) ==
    IF invoice_month = ReplaceDay(CYCLE_TRANSITION_END_DATE, 1)
    THEN [start |-> CYCLE_CHANGE_DATE, end |-> CYCLE_TRANSITION_END_DATE]
    ELSE IF invoice_month >= AddMonths(ReplaceDay(CYCLE_CHANGE_DATE, 1), 1)
    THEN RegularRange(invoice_month, CYCLE_RESET_DAY_NEW)
    ELSE RegularRange(invoice_month, CYCLE_RESET_DAY_OLD)

\* Lines 248-255: the comparison period of the selected period.
PreviousPeriod(use_invoice_month, effective) ==
    IF use_invoice_month
    THEN [start |-> AddMonths(effective.start, -1),
          end |-> AddMonths(effective.end, -1)]
    ELSE [start |-> (effective.start - 1) - (effective.end - effective.start),
          end |-> effective.start - 1]

\* Lengths (days, less one) of a range of dates picked in the sidebar.
RangeLengths == {0, 30}

InitDash ==
    /\ today \in CycleDays
    /\ cycle_start = get_cycle_start(today)
    /\ cycles = get_current_and_previous_cycle_dates(today)
    /\ dash = [fn |-> "none"]
    /\ store = NoStore
    /\ next_id = 1
    /\ ic = {}
    /\ working = {}
    /\ line = NoLine
    /\ outcome = NoOutcome
    /\ BotIdle /\ RetryIdle

\* "Usar Mes da Fatura": the invoice month of an expense of the day `today`
\* is selected.
SelectInvoiceMonth ==
    /\ dash' = [fn |-> "invoice_month",
                selected_month |-> get_invoice_month_for_date(today),
                effective |-> billing_cycle_range(get_invoice_month_for_date(today)),
                previous |-> PreviousPeriod(TRUE,
                                billing_cycle_range(get_invoice_month_for_date(today)))]
    /\ UNCHANGED <<cycle_vars, store_vars, cte_vars, parse_vars, bot_vars, retry>>

\* The range of dates of the sidebar is used.
SelectDates ==
    \E n \in RangeLengths :
        /\ dash' = [fn |-> "dates",
                    selected_month |-> get_invoice_month_for_date(today),
                    effective |-> [start |-> today, end |-> today + n],
                    previous |-> PreviousPeriod(FALSE, [start |-> today, end |-> today + n])]
        /\ UNCHANGED <<cycle_vars, store_vars, cte_vars, parse_vars, bot_vars, retry>>

NextDash == SelectInvoiceMonth \/ SelectDates

SpecDash == InitDash /\ [][NextDash]_vars

-----------------------------------------------------------------------------
(* Properties of the dashboard's periods, under SpecDash.                   *)

InvoiceMode == dash.fn = "invoice_month"

\* The cycle the resolver reports for the day.
CycleOfToday == get_current_and_previous_cycle_dates(today).current

C29_ComparisonIsPreviousCycle ==
    InvoiceMode =>
        /\ dash.previous.end + 1 = dash.effective.start
        /\ dash.previous = get_current_and_previous_cycle_dates(today).previous

-----------------------------------------------------------------------------
(* The legacy insert (src/bot/app.py), specification SpecRetry: one call of *)
(* insert_with_retry from on_text, one attempt of its loop at a time.  The  *)
(* connection is in autocommit mode: an INSERT the server has executed is   *)
(* stored, whatever happens to the connection afterwards.                   *)

\* Largest max_attempts the function is called with (its default is 3).
MaxAttempts == 3

\* What can happen to an attempt: the row is stored and its id is returned;
\* the connection cannot be opened (OperationalError) or is unusable
\* (InterfaceError) before the INSERT reaches the server; the connection is
\* lost after the server has executed the INSERT, while the result is read
\* or the connection is closed (OperationalError); the server refuses the
\* row (any other exception).
AttemptOutcomes ==
    {"inserted", "OperationalError", "InterfaceError", "lost_after_insert", "refused"}

ConnectionFailures == {"OperationalError", "InterfaceError", "lost_after_insert"}

Stored == {"inserted", "lost_after_insert"}

InitRetry ==
    /\ retry \in [state : {"running"}, max_attempts : 1 .. MaxAttempts,
                  attempt : {0}, delay : {8}, rows : {0},
                  log : {<<>>}, reply : {""}]
    /\ BotIdle /\ DashIdle
    /\ line = NoLine
    /\ outcome = NoOutcome
    /\ store = NoStore
    /\ next_id = 1
    /\ ic = {}
    /\ working = {}
    /\ today = CYCLE_CHANGE_DATE
    /\ cycle_start = get_cycle_start(today)
    /\ cycles = get_current_and_previous_cycle_dates(today)

\* The state of the call after an attempt numbered a with outcome o: return
\* the id, re-raise, or sleep and double the delay.
AfterAttempt(a, o) ==
    [state |-> IF o = "inserted" THEN "returned"
               ELSE IF o \in ConnectionFailures /\ a < retry.max_attempts THEN "running"
               ELSE "raised",
     max_attempts |-> retry.max_attempts,
     attempt |-> a,
     delay |-> IF o \in ConnectionFailures /\ a < retry.max_attempts
               THEN retry.delay * 2 ELSE retry.delay,
     rows |-> IF o \in Stored THEN retry.rows + 1 ELSE retry.rows,
     log |-> Append(retry.log, o),
     reply |-> ""]

\* One iteration of the loop of insert_with_retry.
Attempt ==
    \E o \in AttemptOutcomes :
        /\ retry.state = "running"
        /\ retry' = AfterAttempt(retry.attempt + 1, o)
        /\ UNCHANGED <<cycle_vars, store_vars, cte_vars, parse_vars, bot_vars, dash>>

\* on_text answers: the record's id, the database is unavailable, or the
\* class of the error.
LegacyReply ==
    /\ retry.state \in {"returned", "raised"}
    /\ retry' = [retry EXCEPT
                    !.state = "replied",
                    !.reply = IF retry.state = "returned" THEN "Lancado"
                              ELSE IF retry.log[Len(retry.log)] \in ConnectionFailures
                              THEN "Banco indisponivel no momento."
                              ELSE "Erro ao salvar"]
    /\ UNCHANGED <<cycle_vars, store_vars, cte_vars, parse_vars, bot_vars, dash>>

NextRetry == Attempt \/ LegacyReply

SpecRetry == InitRetry /\ [][NextRetry]_vars

-----------------------------------------------------------------------------
(* Properties of the legacy insert, under SpecRetry.                        *)

Called == retry.state # "idle"

\* C30: a call of insert_with_retry stores at most one row and makes at
\* most max_attempts attempts; it retries after a connection failure only,
\* re-raises once the attempts are exhausted or on any other exception, and
\* no failure of an attempt leads to the expense being stored twice.
C30_AtMostOneRow ==
    Called =>
        /\ retry.attempt <= retry.max_attempts
        /\ \A i \in 1 .. Len(retry.log) - 1 : retry.log[i] \in ConnectionFailures
        /\ (retry.state = "running" /\ retry.log # <<>>) => retry.attempt < retry.max_attempts
        /\ retry.rows <= 1

=============================================================================
